---- MODULE Spec2Model ----
EXTENDS Integers, Sequences, FiniteSets, TLC

(***************************************************************************)
(* A model of sha2.py: the SHA-2 hash objects SHA224, SHA256, SHA384 and   *)
(* SHA512, their word primitives, block parsing, padding, compression and  *)
(* the update / digest / hexdigest interface.                              *)
(*                                                                         *)
(* Python integers.  A non-negative Python int is modelled as the sequence *)
(* of its digits in base 65536, most significant first.  Leading zero      *)
(* digits are allowed by every operator; Norm strips them.  A value        *)
(* reduced modulo 2^(16 q) is kept as exactly q digits.                    *)
(***************************************************************************)
Max(a, b) == IF a >= b THEN a ELSE b

Min(a, b) == IF a <= b THEN a ELSE b

\* the sequence s with every element evaluated
Force(s) == s \o <<>>

Zeros(n) == Force([i \in 1..n |-> 0])

\* P2[r + 1] = 2^r for r in 0..16
P2 == <<1, 2, 4, 8, 16, 32, 64, 128, 256, 512, 1024, 2048, 4096, 8192, 16384, 32768, 65536>>

\* x with leading zero digits added up to n digits (the value is unchanged)
IntPad(x, n) == IF Len(x) >= n THEN x ELSE Zeros(n - Len(x)) \o x

\* x without leading zero digits
RECURSIVE Norm(_)
Norm(x) == IF x # <<>> /\ Head(x) = 0 THEN Norm(Tail(x)) ELSE x

\* a small natural number as a Python int
RECURSIVE IntFromNat(_)
IntFromNat(n) == IF n = 0 THEN <<>> ELSE IntFromNat(n \div 65536) \o <<n % 65536>>

\* the last n digits of p
LowDigits(p, n) == SubSeq(p, Len(p) - n + 1, Len(p))

\* the digits low with only the r low bits of the first one kept
MaskTop(low, r) == <<Head(low) % P2[r + 1]>> \o Tail(low)

\* x % 2^bits
IntMod2(x, bits) ==
    IF bits % 16 = 0
    THEN LowDigits(IntPad(x, bits \div 16), bits \div 16)
    ELSE MaskTop(LowDigits(IntPad(x, (bits \div 16) + 1), (bits \div 16) + 1), bits % 16)

\* x without its q low digits
DropLow(x, q) == IF q >= Len(x) THEN <<>> ELSE SubSeq(x, 1, Len(x) - q)

\* y >> r for r < 16
ShiftDigitsR(y, r) ==
    IF r = 0 THEN y
    ELSE Force([j \in 1..Len(y) |->
                  (IF j = 1 THEN 0 ELSE (y[j - 1] % P2[r + 1]) * P2[17 - r])
                  + (y[j] \div P2[r + 1])])

\* z << r for r < 16, where the first digit of z is 0
ShiftDigitsL(z, r) ==
    IF r = 0 THEN z
    ELSE Force([j \in 1..Len(z) |->
                  ((z[j] * P2[r + 1]) % 65536)
                  + (IF j = Len(z) THEN 0 ELSE z[j + 1] \div P2[17 - r])])

\* x >> n
IntShiftR(x, n) == ShiftDigitsR(DropLow(x, n \div 16), n % 16)

\* x << n
IntShiftL(x, n) == ShiftDigitsL(<<0>> \o x, n % 16) \o Zeros(n \div 16)

\* the three bitwise operators on 4-bit values: row a + 1, column b + 1 holds
\* a & b, a | b and a ^ b
AndNibble ==
    <<
       << 0,  0,  0,  0,  0,  0,  0,  0,  0,  0,  0,  0,  0,  0,  0,  0>>,
       << 0,  1,  0,  1,  0,  1,  0,  1,  0,  1,  0,  1,  0,  1,  0,  1>>,
       << 0,  0,  2,  2,  0,  0,  2,  2,  0,  0,  2,  2,  0,  0,  2,  2>>,
       << 0,  1,  2,  3,  0,  1,  2,  3,  0,  1,  2,  3,  0,  1,  2,  3>>,
       << 0,  0,  0,  0,  4,  4,  4,  4,  0,  0,  0,  0,  4,  4,  4,  4>>,
       << 0,  1,  0,  1,  4,  5,  4,  5,  0,  1,  0,  1,  4,  5,  4,  5>>,
       << 0,  0,  2,  2,  4,  4,  6,  6,  0,  0,  2,  2,  4,  4,  6,  6>>,
       << 0,  1,  2,  3,  4,  5,  6,  7,  0,  1,  2,  3,  4,  5,  6,  7>>,
       << 0,  0,  0,  0,  0,  0,  0,  0,  8,  8,  8,  8,  8,  8,  8,  8>>,
       << 0,  1,  0,  1,  0,  1,  0,  1,  8,  9,  8,  9,  8,  9,  8,  9>>,
       << 0,  0,  2,  2,  0,  0,  2,  2,  8,  8, 10, 10,  8,  8, 10, 10>>,
       << 0,  1,  2,  3,  0,  1,  2,  3,  8,  9, 10, 11,  8,  9, 10, 11>>,
       << 0,  0,  0,  0,  4,  4,  4,  4,  8,  8,  8,  8, 12, 12, 12, 12>>,
       << 0,  1,  0,  1,  4,  5,  4,  5,  8,  9,  8,  9, 12, 13, 12, 13>>,
       << 0,  0,  2,  2,  4,  4,  6,  6,  8,  8, 10, 10, 12, 12, 14, 14>>,
       << 0,  1,  2,  3,  4,  5,  6,  7,  8,  9, 10, 11, 12, 13, 14, 15>>
    >>

OrNibble ==
    <<
       << 0,  1,  2,  3,  4,  5,  6,  7,  8,  9, 10, 11, 12, 13, 14, 15>>,
       << 1,  1,  3,  3,  5,  5,  7,  7,  9,  9, 11, 11, 13, 13, 15, 15>>,
       << 2,  3,  2,  3,  6,  7,  6,  7, 10, 11, 10, 11, 14, 15, 14, 15>>,
       << 3,  3,  3,  3,  7,  7,  7,  7, 11, 11, 11, 11, 15, 15, 15, 15>>,
       << 4,  5,  6,  7,  4,  5,  6,  7, 12, 13, 14, 15, 12, 13, 14, 15>>,
       << 5,  5,  7,  7,  5,  5,  7,  7, 13, 13, 15, 15, 13, 13, 15, 15>>,
       << 6,  7,  6,  7,  6,  7,  6,  7, 14, 15, 14, 15, 14, 15, 14, 15>>,
       << 7,  7,  7,  7,  7,  7,  7,  7, 15, 15, 15, 15, 15, 15, 15, 15>>,
       << 8,  9, 10, 11, 12, 13, 14, 15,  8,  9, 10, 11, 12, 13, 14, 15>>,
       << 9,  9, 11, 11, 13, 13, 15, 15,  9,  9, 11, 11, 13, 13, 15, 15>>,
       <<10, 11, 10, 11, 14, 15, 14, 15, 10, 11, 10, 11, 14, 15, 14, 15>>,
       <<11, 11, 11, 11, 15, 15, 15, 15, 11, 11, 11, 11, 15, 15, 15, 15>>,
       <<12, 13, 14, 15, 12, 13, 14, 15, 12, 13, 14, 15, 12, 13, 14, 15>>,
       <<13, 13, 15, 15, 13, 13, 15, 15, 13, 13, 15, 15, 13, 13, 15, 15>>,
       <<14, 15, 14, 15, 14, 15, 14, 15, 14, 15, 14, 15, 14, 15, 14, 15>>,
       <<15, 15, 15, 15, 15, 15, 15, 15, 15, 15, 15, 15, 15, 15, 15, 15>>
    >>

XorNibble ==
    <<
       << 0,  1,  2,  3,  4,  5,  6,  7,  8,  9, 10, 11, 12, 13, 14, 15>>,
       << 1,  0,  3,  2,  5,  4,  7,  6,  9,  8, 11, 10, 13, 12, 15, 14>>,
       << 2,  3,  0,  1,  6,  7,  4,  5, 10, 11,  8,  9, 14, 15, 12, 13>>,
       << 3,  2,  1,  0,  7,  6,  5,  4, 11, 10,  9,  8, 15, 14, 13, 12>>,
       << 4,  5,  6,  7,  0,  1,  2,  3, 12, 13, 14, 15,  8,  9, 10, 11>>,
       << 5,  4,  7,  6,  1,  0,  3,  2, 13, 12, 15, 14,  9,  8, 11, 10>>,
       << 6,  7,  4,  5,  2,  3,  0,  1, 14, 15, 12, 13, 10, 11,  8,  9>>,
       << 7,  6,  5,  4,  3,  2,  1,  0, 15, 14, 13, 12, 11, 10,  9,  8>>,
       << 8,  9, 10, 11, 12, 13, 14, 15,  0,  1,  2,  3,  4,  5,  6,  7>>,
       << 9,  8, 11, 10, 13, 12, 15, 14,  1,  0,  3,  2,  5,  4,  7,  6>>,
       <<10, 11,  8,  9, 14, 15, 12, 13,  2,  3,  0,  1,  6,  7,  4,  5>>,
       <<11, 10,  9,  8, 15, 14, 13, 12,  3,  2,  1,  0,  7,  6,  5,  4>>,
       <<12, 13, 14, 15,  8,  9, 10, 11,  4,  5,  6,  7,  0,  1,  2,  3>>,
       <<13, 12, 15, 14,  9,  8, 11, 10,  5,  4,  7,  6,  1,  0,  3,  2>>,
       <<14, 15, 12, 13, 10, 11,  8,  9,  6,  7,  4,  5,  2,  3,  0,  1>>,
       <<15, 14, 13, 12, 11, 10,  9,  8,  7,  6,  5,  4,  3,  2,  1,  0>>
    >>

\* a bitwise operator on two base-65536 digits, four bits at a time
DigitOp(T, a, b) ==
      T[(a \div 4096) + 1][(b \div 4096) + 1] * 4096
    + T[((a \div 256) % 16) + 1][((b \div 256) % 16) + 1] * 256
    + T[((a \div 16) % 16) + 1][((b \div 16) % 16) + 1] * 16
    + T[(a % 16) + 1][(b % 16) + 1]

\* the operator on two integers of the same number of digits
DigitsOp(T, a, b) == Force([i \in 1..Len(a) |-> DigitOp(T, a[i], b[i])])

\* x & y, x | y, x ^ y
IntAnd(x, y) == DigitsOp(AndNibble, IntPad(x, Len(y)), IntPad(y, Len(x)))

IntOr(x, y) == DigitsOp(OrNibble, IntPad(x, Len(y)), IntPad(y, Len(x)))

IntXor(x, y) == DigitsOp(XorNibble, IntPad(x, Len(y)), IntPad(y, Len(x)))

\* the sum of the integers of the sequence xs: digit by digit from the least
\* significant one, with a last digit for the carry
RECURSIVE MaxLen(_, _)
MaxLen(xs, k) == IF k = 0 THEN 0 ELSE Max(Len(xs[k]), MaxLen(xs, k - 1))

RECURSIVE DigitSum(_, _, _)
DigitSum(xs, j, k) == IF k = 0 THEN 0 ELSE xs[k][j] + DigitSum(xs, j, k - 1)

RECURSIVE SumFrom(_, _, _, _)
SumFrom(xs, j, s, acc) ==
    IF j = 0 THEN <<s>> \o acc
    ELSE SumFrom(xs, j - 1, (DigitSum(xs, j, Len(xs)) + s) \div 65536,
                 <<(DigitSum(xs, j, Len(xs)) + s) % 65536>> \o acc)

SumPadded(xs, n) ==
    SumFrom(Force([k \in 1..Len(xs) |-> IntPad(xs[k], n)]), n, 0, <<>>)

IntSum(xs) == SumPadded(xs, MaxLen(xs, Len(xs)))

\* x - y for x >= y with no digit of y above the digit of x
IntSubDigits(x, y) == Force([i \in 1..Len(x) |-> x[i] - y[i]])

(***************************************************************************)
(* bytes objects are sequences of integers in 0..255.                      *)
(***************************************************************************)
\* the Python slice s[a:b] for 0 <= a
Slice(s, a, b) == SubSeq(s, a + 1, Min(b, Len(s)))

\* the bytes of a sequence of bytes objects, joined
RECURSIVE Join(_)
Join(ss) == IF ss = <<>> THEN <<>> ELSE Head(ss) \o Join(Tail(ss))

\* the digits of an even number of bytes
PairDigits(p) == Force([i \in 1..(Len(p) \div 2) |-> p[2 * i - 1] * 256 + p[2 * i]])

\* int.from_bytes(bs, "big")
from_bytes(bs) == PairDigits(IF Len(bs) % 2 = 1 THEN <<0>> \o bs ELSE bs)

\* the bytes of the digits d
DigitBytes(d) ==
    Force([i \in 1..(2 * Len(d)) |->
             IF i % 2 = 1 THEN d[(i + 1) \div 2] \div 256 ELSE d[i \div 2] % 256])

\* the bytes all, of a number without leading zero digits, without the leading
\* zero byte
Significant(all) == IF all # <<>> /\ Head(all) = 0 THEN Tail(all) ELSE all

\* the n bytes of the significant bytes sig; error stands for the
\* OverflowError ("int too big to convert")
FitBytes(sig, n) ==
    IF Len(sig) > n THEN [error |-> TRUE, bytes |-> <<>>]
    ELSE [error |-> FALSE, bytes |-> Zeros(n - Len(sig)) \o sig]

\* x.to_bytes(n, "big")
to_bytes(x, n) == FitBytes(Significant(DigitBytes(Norm(x))), n)

\* 1 << k
OneShiftL(k) == IntShiftL(<<1>>, k)


K256 ==
    <<
       <<\h428A, \h2F98>>, <<\h7137, \h4491>>, <<\hB5C0, \hFBCF>>, <<\hE9B5, \hDBA5>>,
       <<\h3956, \hC25B>>, <<\h59F1, \h11F1>>, <<\h923F, \h82A4>>, <<\hAB1C, \h5ED5>>,
       <<\hD807, \hAA98>>, <<\h1283, \h5B01>>, <<\h2431, \h85BE>>, <<\h550C, \h7DC3>>,
       <<\h72BE, \h5D74>>, <<\h80DE, \hB1FE>>, <<\h9BDC, \h06A7>>, <<\hC19B, \hF174>>,
       <<\hE49B, \h69C1>>, <<\hEFBE, \h4786>>, <<\h0FC1, \h9DC6>>, <<\h240C, \hA1CC>>,
       <<\h2DE9, \h2C6F>>, <<\h4A74, \h84AA>>, <<\h5CB0, \hA9DC>>, <<\h76F9, \h88DA>>,
       <<\h983E, \h5152>>, <<\hA831, \hC66D>>, <<\hB003, \h27C8>>, <<\hBF59, \h7FC7>>,
       <<\hC6E0, \h0BF3>>, <<\hD5A7, \h9147>>, <<\h06CA, \h6351>>, <<\h1429, \h2967>>,
       <<\h27B7, \h0A85>>, <<\h2E1B, \h2138>>, <<\h4D2C, \h6DFC>>, <<\h5338, \h0D13>>,
       <<\h650A, \h7354>>, <<\h766A, \h0ABB>>, <<\h81C2, \hC92E>>, <<\h9272, \h2C85>>,
       <<\hA2BF, \hE8A1>>, <<\hA81A, \h664B>>, <<\hC24B, \h8B70>>, <<\hC76C, \h51A3>>,
       <<\hD192, \hE819>>, <<\hD699, \h0624>>, <<\hF40E, \h3585>>, <<\h106A, \hA070>>,
       <<\h19A4, \hC116>>, <<\h1E37, \h6C08>>, <<\h2748, \h774C>>, <<\h34B0, \hBCB5>>,
       <<\h391C, \h0CB3>>, <<\h4ED8, \hAA4A>>, <<\h5B9C, \hCA4F>>, <<\h682E, \h6FF3>>,
       <<\h748F, \h82EE>>, <<\h78A5, \h636F>>, <<\h84C8, \h7814>>, <<\h8CC7, \h0208>>,
       <<\h90BE, \hFFFA>>, <<\hA450, \h6CEB>>, <<\hBEF9, \hA3F7>>, <<\hC671, \h78F2>>
    >>

H256 ==
    <<
       <<\h6A09, \hE667>>, <<\hBB67, \hAE85>>, <<\h3C6E, \hF372>>, <<\hA54F, \hF53A>>,
       <<\h510E, \h527F>>, <<\h9B05, \h688C>>, <<\h1F83, \hD9AB>>, <<\h5BE0, \hCD19>>
    >>

H224 ==
    <<
       <<\hC105, \h9ED8>>, <<\h367C, \hD507>>, <<\h3070, \hDD17>>, <<\hF70E, \h5939>>,
       <<\hFFC0, \h0B31>>, <<\h6858, \h1511>>, <<\h64F9, \h8FA7>>, <<\hBEFA, \h4FA4>>
    >>

K512 ==
    <<
       <<\h428A, \h2F98, \hD728, \hAE22>>, <<\h7137, \h4491, \h23EF, \h65CD>>,
       <<\hB5C0, \hFBCF, \hEC4D, \h3B2F>>, <<\hE9B5, \hDBA5, \h8189, \hDBBC>>,
       <<\h3956, \hC25B, \hF348, \hB538>>, <<\h59F1, \h11F1, \hB605, \hD019>>,
       <<\h923F, \h82A4, \hAF19, \h4F9B>>, <<\hAB1C, \h5ED5, \hDA6D, \h8118>>,
       <<\hD807, \hAA98, \hA303, \h0242>>, <<\h1283, \h5B01, \h4570, \h6FBE>>,
       <<\h2431, \h85BE, \h4EE4, \hB28C>>, <<\h550C, \h7DC3, \hD5FF, \hB4E2>>,
       <<\h72BE, \h5D74, \hF27B, \h896F>>, <<\h80DE, \hB1FE, \h3B16, \h96B1>>,
       <<\h9BDC, \h06A7, \h25C7, \h1235>>, <<\hC19B, \hF174, \hCF69, \h2694>>,
       <<\hE49B, \h69C1, \h9EF1, \h4AD2>>, <<\hEFBE, \h4786, \h384F, \h25E3>>,
       <<\h0FC1, \h9DC6, \h8B8C, \hD5B5>>, <<\h240C, \hA1CC, \h77AC, \h9C65>>,
       <<\h2DE9, \h2C6F, \h592B, \h0275>>, <<\h4A74, \h84AA, \h6EA6, \hE483>>,
       <<\h5CB0, \hA9DC, \hBD41, \hFBD4>>, <<\h76F9, \h88DA, \h8311, \h53B5>>,
       <<\h983E, \h5152, \hEE66, \hDFAB>>, <<\hA831, \hC66D, \h2DB4, \h3210>>,
       <<\hB003, \h27C8, \h98FB, \h213F>>, <<\hBF59, \h7FC7, \hBEEF, \h0EE4>>,
       <<\hC6E0, \h0BF3, \h3DA8, \h8FC2>>, <<\hD5A7, \h9147, \h930A, \hA725>>,
       <<\h06CA, \h6351, \hE003, \h826F>>, <<\h1429, \h2967, \h0A0E, \h6E70>>,
       <<\h27B7, \h0A85, \h46D2, \h2FFC>>, <<\h2E1B, \h2138, \h5C26, \hC926>>,
       <<\h4D2C, \h6DFC, \h5AC4, \h2AED>>, <<\h5338, \h0D13, \h9D95, \hB3DF>>,
       <<\h650A, \h7354, \h8BAF, \h63DE>>, <<\h766A, \h0ABB, \h3C77, \hB2A8>>,
       <<\h81C2, \hC92E, \h47ED, \hAEE6>>, <<\h9272, \h2C85, \h1482, \h353B>>,
       <<\hA2BF, \hE8A1, \h4CF1, \h0364>>, <<\hA81A, \h664B, \hBC42, \h3001>>,
       <<\hC24B, \h8B70, \hD0F8, \h9791>>, <<\hC76C, \h51A3, \h0654, \hBE30>>,
       <<\hD192, \hE819, \hD6EF, \h5218>>, <<\hD699, \h0624, \h5565, \hA910>>,
       <<\hF40E, \h3585, \h5771, \h202A>>, <<\h106A, \hA070, \h32BB, \hD1B8>>,
       <<\h19A4, \hC116, \hB8D2, \hD0C8>>, <<\h1E37, \h6C08, \h5141, \hAB53>>,
       <<\h2748, \h774C, \hDF8E, \hEB99>>, <<\h34B0, \hBCB5, \hE19B, \h48A8>>,
       <<\h391C, \h0CB3, \hC5C9, \h5A63>>, <<\h4ED8, \hAA4A, \hE341, \h8ACB>>,
       <<\h5B9C, \hCA4F, \h7763, \hE373>>, <<\h682E, \h6FF3, \hD6B2, \hB8A3>>,
       <<\h748F, \h82EE, \h5DEF, \hB2FC>>, <<\h78A5, \h636F, \h4317, \h2F60>>,
       <<\h84C8, \h7814, \hA1F0, \hAB72>>, <<\h8CC7, \h0208, \h1A64, \h39EC>>,
       <<\h90BE, \hFFFA, \h2363, \h1E28>>, <<\hA450, \h6CEB, \hDE82, \hBDE9>>,
       <<\hBEF9, \hA3F7, \hB2C6, \h7915>>, <<\hC671, \h78F2, \hE372, \h532B>>,
       <<\hCA27, \h3ECE, \hEA26, \h619C>>, <<\hD186, \hB8C7, \h21C0, \hC207>>,
       <<\hEADA, \h7DD6, \hCDE0, \hEB1E>>, <<\hF57D, \h4F7F, \hEE6E, \hD178>>,
       <<\h06F0, \h67AA, \h7217, \h6FBA>>, <<\h0A63, \h7DC5, \hA2C8, \h98A6>>,
       <<\h113F, \h9804, \hBEF9, \h0DAE>>, <<\h1B71, \h0B35, \h131C, \h471B>>,
       <<\h28DB, \h77F5, \h2304, \h7D84>>, <<\h32CA, \hAB7B, \h40C7, \h2493>>,
       <<\h3C9E, \hBE0A, \h15C9, \hBEBC>>, <<\h431D, \h67C4, \h9C10, \h0D4C>>,
       <<\h4CC5, \hD4BE, \hCB3E, \h42B6>>, <<\h597F, \h299C, \hFC65, \h7E2A>>,
       <<\h5FCB, \h6FAB, \h3AD6, \hFAEC>>, <<\h6C44, \h198C, \h4A47, \h5817>>
    >>

H512 ==
    <<
       <<\h6A09, \hE667, \hF3BC, \hC908>>, <<\hBB67, \hAE85, \h84CA, \hA73B>>,
       <<\h3C6E, \hF372, \hFE94, \hF82B>>, <<\hA54F, \hF53A, \h5F1D, \h36F1>>,
       <<\h510E, \h527F, \hADE6, \h82D1>>, <<\h9B05, \h688C, \h2B3E, \h6C1F>>,
       <<\h1F83, \hD9AB, \hFB41, \hBD6B>>, <<\h5BE0, \hCD19, \h137E, \h2179>>
    >>

H384 ==
    <<
       <<\hCBBB, \h9D5D, \hC105, \h9ED8>>, <<\h629A, \h292A, \h367C, \hD507>>,
       <<\h9159, \h015A, \h3070, \hDD17>>, <<\h152F, \hECD8, \hF70E, \h5939>>,
       <<\h6733, \h2667, \hFFC0, \h0B31>>, <<\h8EB4, \h4A87, \h6858, \h1511>>,
       <<\hDB0C, \h2E0D, \h64F9, \h8FA7>>, <<\h47B5, \h481D, \hBEFA, \h4FA4>>
    >>


(***************************************************************************)
(* The classes.  A class is named by a string; its attributes are the      *)
(* operators below.                                                        *)
(***************************************************************************)
Variants == {"SHA224", "SHA256", "SHA384", "SHA512"}

\* SHA224 derives from SHA256 and SHA384 from SHA512
Base(cls) == IF cls \in {"SHA224", "SHA256"} THEN "SHA256" ELSE "SHA512"

WORD_SIZE(cls) == IF Base(cls) = "SHA256" THEN 4 ELSE 8

BLOCK_SIZE(cls) == IF Base(cls) = "SHA256" THEN 64 ELSE 128

\* DIGEST_LENGTH as if no class overrode the None of SHA2: with it a digest
\* has all eight words
NoDigestLength(cls) == <<>>

\* an Optional[int]: <<n>> for the int n and <<>> for None
DIGEST_LENGTH(cls) ==
    CASE cls = "SHA224" -> <<7>>
      [] cls = "SHA384" -> <<6>>
      [] OTHER -> <<>>

K(cls) == IF Base(cls) = "SHA256" THEN K256 ELSE K512

H(cls) ==
    CASE cls = "SHA224" -> H224
      [] cls = "SHA256" -> H256
      [] cls = "SHA384" -> H384
      [] cls = "SHA512" -> H512

\* SHA2Meta.__init__: _MODULO = 2 ** (WORD_SIZE * 8); x % _MODULO keeps the
\* low WORD_SIZE * 8 bits
ModuloBits(cls) == WORD_SIZE(cls) * 8

Mod(cls, x) == IntMod2(x, ModuloBits(cls))

(***************************************************************************)
(* The word primitives                                                     *)
(***************************************************************************)
\* (1 << WORD_SIZE * 8) - 1
AllOnes(cls) == Force([i \in 1..(ModuloBits(cls) \div 16) |-> 65535])

\* (1 << WORD_SIZE * 8) - 1 - x, for the x < 2^(WORD_SIZE * 8) the code
\* passes: no digit of the subtraction borrows
_bit_not(cls, x) ==
    IntSubDigits(AllOnes(cls), LowDigits(IntPad(x, ModuloBits(cls) \div 16),
                                         ModuloBits(cls) \div 16))

\* a right shift in the place of the rotation: (x >> n) % _MODULO
ShiftForRotate(cls, x, n) == Mod(cls, IntShiftR(x, n))

_r_rotate(cls, x, n) ==
    Mod(cls, IntOr(IntShiftR(x, n), IntShiftL(x, WORD_SIZE(cls) * 8 - n)))

_ch(cls, x, y, z) == IntOr(IntAnd(x, y), IntAnd(_bit_not(cls, x), z))

\* _maj without its last term: (x & y) | (x & z)
MajOfTwoTerms(x, y, z) == IntOr(IntAnd(x, y), IntAnd(x, z))

_maj(x, y, z) == IntOr(IntOr(IntAnd(x, y), IntAnd(x, z)), IntAnd(y, z))

\* the rotation and shift amounts of the four sigma functions, as SHA256 and
\* SHA512 define them
USigma0Amounts(cls) == IF Base(cls) = "SHA256" THEN <<2, 13, 22>> ELSE <<28, 34, 39>>

USigma1Amounts(cls) == IF Base(cls) = "SHA256" THEN <<6, 11, 25>> ELSE <<14, 18, 41>>

\* the amounts of _sigma_0 with the shift taken for a rotation and the second
\* rotation for the shift: with them the schedule is not that of FIPS 180-4
Sigma0Swapped(cls) == IF Base(cls) = "SHA256" THEN <<7, 3, 18>> ELSE <<1, 7, 8>>

Sigma0Amounts(cls) == IF Base(cls) = "SHA256" THEN <<7, 18, 3>> ELSE <<1, 8, 7>>

Sigma1Amounts(cls) == IF Base(cls) = "SHA256" THEN <<17, 19, 10>> ELSE <<19, 61, 6>>

\* _r_rotate(x, r[1]) ^ _r_rotate(x, r[2]) ^ _r_rotate(x, r[3])
RotRotRot(cls, x, r) ==
    IntXor(IntXor(_r_rotate(cls, x, r[1]), _r_rotate(cls, x, r[2])),
           _r_rotate(cls, x, r[3]))

\* _r_rotate(x, r[1]) ^ _r_rotate(x, r[2]) ^ (x >> r[3])
RotRotShift(cls, x, r) ==
    IntXor(IntXor(_r_rotate(cls, x, r[1]), _r_rotate(cls, x, r[2])),
           IntShiftR(x, r[3]))

_usigma_0(cls, x) == RotRotRot(cls, x, USigma0Amounts(cls))

_usigma_1(cls, x) == RotRotRot(cls, x, USigma1Amounts(cls))

_sigma_0(cls, x) == RotRotShift(cls, x, Sigma0Amounts(cls))

_sigma_1(cls, x) == RotRotShift(cls, x, Sigma1Amounts(cls))

(***************************************************************************)
(* Blocks, padding and compression                                         *)
(***************************************************************************)
\* the words of one block: for j in range(0, BLOCK_SIZE, WORD_SIZE)
BlockWords(cls, block) ==
    Force([n \in 1..((BLOCK_SIZE(cls) + WORD_SIZE(cls) - 1) \div WORD_SIZE(cls)) |->
             from_bytes(Slice(block, (n - 1) * WORD_SIZE(cls), n * WORD_SIZE(cls)))])

\* _process with the rest taken from m[len(m) // BLOCK_SIZE :], the number of
\* blocks not multiplied by their size
ProcessRestUnscaled(cls, m) ==
    [blocks |-> Force([n \in 1..(Len(m) \div BLOCK_SIZE(cls)) |->
                         BlockWords(cls, Slice(m, (n - 1) * BLOCK_SIZE(cls),
                                               n * BLOCK_SIZE(cls)))]),
     rest |-> Slice(m, Len(m) \div BLOCK_SIZE(cls), Len(m))]

\* _process(m): the complete blocks of m as lists of words, and the rest of m
_process(cls, m) ==
    [blocks |-> Force([n \in 1..(Len(m) \div BLOCK_SIZE(cls)) |->
                         BlockWords(cls, Slice(m, (n - 1) * BLOCK_SIZE(cls),
                                               n * BLOCK_SIZE(cls)))]),
     rest |-> Slice(m, (Len(m) \div BLOCK_SIZE(cls)) * BLOCK_SIZE(cls), Len(m))]

\* one iteration of the loop of _expand_message_block: w += [...] for index i
ExpandStep(cls, w, i) ==
    Append(w, Mod(cls, IntSum(<<_sigma_1(cls, w[i - 2 + 1]), w[i - 7 + 1],
                                _sigma_0(cls, w[i - 15 + 1]), w[i - 16 + 1]>>)))

\* the iterations lo..hi of that loop, in order
RECURSIVE ExpandRange(_, _, _, _)
ExpandRange(cls, w, lo, hi) ==
    IF Len(w) = 0 \/ lo > hi THEN w
    ELSE IF lo = hi THEN ExpandStep(cls, w, lo)
    ELSE ExpandRange(cls, ExpandRange(cls, w, lo, (lo + hi) \div 2),
                     ((lo + hi) \div 2) + 1, hi)

\* _expand_message_block with one word less: for i in range(16, len(K) - 1)
ExpandOneLess(cls, w) == ExpandRange(cls, w, 16, Len(K(cls)) - 2)

\* _expand_message_block(w): for i in range(16, len(K)); the value of the
\* list w after the call, which extends it in place
_expand_message_block(cls, w) == ExpandRange(cls, w, 16, Len(K(cls)) - 1)

\* the assignments that end one iteration of the inner loop of _compress,
\* on the working variables s = (a, b, c, d, e, f, g, h)
RoundAssign(cls, s, t1, t2) ==
    <<Mod(cls, IntSum(<<t1, t2>>)), s[1], s[2], s[3],
      Mod(cls, IntSum(<<s[4], t1>>)), s[5], s[6], s[7]>>

\* one iteration of that loop; t1 and t2 are not reduced
Round(cls, s, w, k) ==
    RoundAssign(cls, s,
                IntSum(<<s[8], _usigma_1(cls, s[5]), _ch(cls, s[5], s[6], s[7]), k, w>>),
                IntSum(<<_usigma_0(cls, s[1]), _maj(s[1], s[2], s[3])>>))

\* the iterations lo..hi of for w, k in zip(block, K), in order
RECURSIVE RoundRange(_, _, _, _, _)
RoundRange(cls, s, block, lo, hi) ==
    IF Len(s) = 0 \/ lo > hi THEN s
    ELSE IF lo = hi THEN Round(cls, s, block[lo], K(cls)[lo])
    ELSE RoundRange(cls, RoundRange(cls, s, block, lo, (lo + hi) \div 2),
                    block, ((lo + hi) \div 2) + 1, hi)

\* the working variables after the inner loop over the expanded block
Rounds(cls, hash, block) ==
    RoundRange(cls, hash, block, 1, Min(Len(block), Len(K(cls))))

\* self._hash = [(r + w) % _MODULO for r, w in zip((a, ..., h), self._hash)]
AddState(cls, s, hash) ==
    Force([i \in 1..Min(Len(s), Len(hash)) |-> Mod(cls, IntSum(<<s[i], hash[i]>>))])

\* the body of the outer loop of _compress for one block
CompressBlock(cls, hash, block) ==
    AddState(cls, Rounds(cls, hash, _expand_message_block(cls, block)), hash)

\* _compress(blocks): the value of self._hash after the call
RECURSIVE CompressRange(_, _, _, _, _)
CompressRange(cls, hash, blocks, lo, hi) ==
    IF Len(hash) = 0 \/ lo > hi THEN hash
    ELSE IF lo = hi THEN CompressBlock(cls, hash, blocks[lo])
    ELSE CompressRange(cls, CompressRange(cls, hash, blocks, lo, (lo + hi) \div 2),
                       blocks, ((lo + hi) \div 2) + 1, hi)

_compress(cls, hash, blocks) == CompressRange(cls, hash, blocks, 1, Len(blocks))

\* the padding length without the room for the length field
PadBitsNoLength(cls, m) ==
    ((BLOCK_SIZE(cls) - Len(m)) * 8 - 1) % (BLOCK_SIZE(cls) * 8)

\* the padding length k of _process_last_block, in bits
PadBits(cls, m) ==
    ((BLOCK_SIZE(cls) - WORD_SIZE(cls) * 2 - Len(m)) * 8 - 1) % (BLOCK_SIZE(cls) * 8)

\* the blocks of m + zeroes + length; error stands for the OverflowError of
\* a to_bytes call
PaddedBlocks(cls, m, zeroes, length) ==
    IF zeroes.error \/ length.error
    THEN [error |-> TRUE, blocks |-> <<>>]
    ELSE [error |-> FALSE,
          blocks |-> _process(cls, m \o zeroes.bytes \o length.bytes).blocks]

\* _process_last_block with the length of the buffer for the length of the
\* message: length = (len(m) * 8).to_bytes(WORD_SIZE * 2)
ProcessLastBlockOfBuffer(self) ==
    PaddedBlocks(self.cls, self._last_block,
                 to_bytes(OneShiftL(PadBits(self.cls, self._last_block)),
                          (PadBits(self.cls, self._last_block) + 1) \div 8),
                 to_bytes(IntFromNat(Len(self._last_block) * 8), WORD_SIZE(self.cls) * 2))

\* _process_last_block(): zeroes = (1 << k).to_bytes((k + 1) // 8) and
\* length = self._message_length.to_bytes(WORD_SIZE * 2)
_process_last_block(self) ==
    PaddedBlocks(self.cls, self._last_block,
                 to_bytes(OneShiftL(PadBits(self.cls, self._last_block)),
                          (PadBits(self.cls, self._last_block) + 1) \div 8),
                 to_bytes(self._message_length, WORD_SIZE(self.cls) * 2))

(***************************************************************************)
(* Hash objects.  An object is a record of its class and its three         *)
(* attributes; a method is an operator from the object (and its            *)
(* arguments) to the object after the call and the value returned.         *)
(***************************************************************************)
\* the length counted in bytes: self._message_length += len(chunk)
AddLengthBytes(length, chunk) == Norm(IntSum(<<length, IntFromNat(Len(chunk))>>))

\* self._message_length += len(chunk) * 8
AddLength(length, chunk) == Norm(IntSum(<<length, IntFromNat(Len(chunk) * 8)>>))

\* the body of the loop of update without the call of _compress
UpdateProcessedUncompressed(self, chunk, p) ==
    [cls |-> self.cls,
     _hash |-> self._hash,
     _last_block |-> p.rest,
     _message_length |-> Norm(IntSum(<<self._message_length,
                                      IntFromNat(Len(chunk) * 8)>>))]

\* the body of the loop of update once _process has returned p for
\* self._last_block + chunk
UpdateProcessed(self, chunk, p) ==
    [cls |-> self.cls,
     _hash |-> _compress(self.cls, self._hash, p.blocks),
     _last_block |-> p.rest,
     _message_length |-> AddLength(self._message_length, chunk)]

\* the body of the loop of update if _process were given the chunk alone, and
\* the bytes buffered in self._last_block were forgotten
UpdateChunkUnbuffered(self, chunk) ==
    [cls |-> self.cls,
     _hash |-> _compress(self.cls, self._hash, _process(self.cls, chunk).blocks),
     _last_block |-> _process(self.cls, chunk).rest,
     _message_length |-> Norm(IntSum(<<self._message_length,
                                      IntFromNat(Len(chunk) * 8)>>))]

\* the body of the loop of update for one non-empty chunk
UpdateChunk(self, chunk) ==
    UpdateProcessed(self, chunk, _process(self.cls, self._last_block \o chunk))

\* the loop of update over the results of message.read: it ends at the first
\* empty one
RECURSIVE UpdateLoop(_, _)
UpdateLoop(self, reads) ==
    IF reads = <<>> \/ Head(reads) = <<>> THEN self
    ELSE UpdateLoop(UpdateChunk(self, Head(reads)), Tail(reads))

_CHUNK_SIZE == 8 * 1024 * 1024

\* the results of the successive read(_CHUNK_SIZE) calls on io.BytesIO(data),
\* up to the first empty one
BytesIO(data) ==
    Force([n \in 1..((Len(data) + _CHUNK_SIZE - 1) \div _CHUNK_SIZE) |->
             Slice(data, (n - 1) * _CHUNK_SIZE, n * _CHUNK_SIZE)])

\* A message is a bytes object, [type |-> "bytes", data |-> ...], or a
\* reader, [type |-> "reader", data |-> ...], where data is the sequence of
\* the non-empty results of its read calls.
Reads(message) ==
    IF message.type = "bytes" THEN BytesIO(message.data) ELSE message.data

Content(message) ==
    IF message.type = "bytes" THEN message.data ELSE Join(message.data)

update(self, message) == UpdateLoop(self, Reads(message))

\* the attributes that __init__ assigns before it looks at message
NewObject(cls) ==
    [cls |-> cls, _hash |-> H(cls), _last_block |-> <<>>, _message_length |-> <<>>]

\* SHA2.__init__: message is an Optional, <<>> for None
__init__(cls, message) ==
    IF message = <<>> THEN NewObject(cls) ELSE update(NewObject(cls), message[1])

\* the property message_length
message_length(self) == self._message_length

\* self._hash[: self.DIGEST_LENGTH]
DigestWords(cls, hash) ==
    IF DIGEST_LENGTH(cls) = <<>> THEN hash ELSE Slice(hash, 0, DIGEST_LENGTH(cls)[1])

\* b"".join(bs) for the results bs of the to_bytes calls
JoinBytes(bs) ==
    [error |-> \E i \in 1..Len(bs) : bs[i].error,
     bytes |-> Join(Force([i \in 1..Len(bs) |-> bs[i].bytes]))]

\* b"".join(h.to_bytes(self.WORD_SIZE, "big") for h in ...)
JoinWords(cls, words) ==
    JoinBytes(Force([i \in 1..Len(words) |-> to_bytes(words[i], WORD_SIZE(cls))]))

\* digest without its last assignment: self._hash keeps the compressed value
CompressedHash(last_hash, compressed) == compressed

\* the value that digest leaves in self._hash: self._hash = last_hash
RestoredHash(last_hash, compressed) == last_hash

\* digest() from the join on: self._hash holds compressed
DigestJoined(self, last_hash, compressed, joined) ==
    IF joined.error
    THEN [self |-> [self EXCEPT !._hash = compressed], error |-> TRUE, bytes |-> <<>>]
    ELSE [self |-> [self EXCEPT !._hash = RestoredHash(last_hash, compressed)],
          error |-> FALSE, bytes |-> joined.bytes]

\* digest() once _compress has returned
DigestCompressed(self, last_hash, compressed) ==
    DigestJoined(self, last_hash, compressed,
                 JoinWords(self.cls, DigestWords(self.cls, compressed)))

\* digest() once _process_last_block has returned or raised
DigestPadded(self, last_hash, padded) ==
    IF padded.error THEN [self |-> self, error |-> TRUE, bytes |-> <<>>]
    ELSE DigestCompressed(self, last_hash,
                          _compress(self.cls, self._hash, padded.blocks))

\* digest(): the object after the call, and the bytes returned or the error
\* raised
digest(self) == DigestPadded(self, self._hash, _process_last_block(self))

\* the characters of the format specification "x"
HexDigits == <<"0", "1", "2", "3", "4", "5", "6", "7",
               "8", "9", "a", "b", "c", "d", "e", "f">>

\* the four hexadecimal digits of each of the digits d
Nibbles(d) ==
    Force([i \in 1..(4 * Len(d)) |->
             (d[(i + 3) \div 4] \div P2[(4 * ((4 - (i % 4)) % 4)) + 1]) % 16])

\* the number of leading zero hexadecimal digits of the non-zero digit d1
LeadingZeros(d1) ==
    IF d1 >= 4096 THEN 0 ELSE IF d1 >= 256 THEN 1 ELSE IF d1 >= 16 THEN 2 ELSE 3

\* the characters of the hexadecimal digits ns
HexChars(ns) == Force([i \in 1..Len(ns) |-> HexDigits[ns[i] + 1]])

\* the characters of a number d without leading zero digits
FormatDigits(d) ==
    IF d = <<>> THEN <<"0">>
    ELSE HexChars(SubSeq(Nibbles(d), LeadingZeros(d[1]) + 1, 4 * Len(d)))

\* f"{x:x}" for a Python int x: its hexadecimal digits without leading
\* zeros, "0" for zero, as a sequence of characters
FormatHex(x) == FormatDigits(Norm(x))

_to_hex(bytes) == FormatHex(from_bytes(bytes))

\* hexdigest() once digest has returned d or raised
HexOf(d) ==
    [self |-> d.self, error |-> d.error,
     text |-> IF d.error THEN <<>> ELSE _to_hex(d.bytes)]

\* hexdigest(): the object after the call, and the string returned
hexdigest(self) == HexOf(digest(self))

(***************************************************************************)
(* The state machine.                                                      *)
(*                                                                         *)
(* objects[o] is hash object o and ret[t] is what the last call of thread  *)
(* t returned.  fed[o] (the bytes passed to object o so far) and pieces[o] *)
(* (the number of chunks they came in) are history variables.  frame[t],   *)
(* todo[t] and lists hold the position of thread t inside a call, the      *)
(* calls it still has to make and the lists of words that _process has     *)
(* built; only the statement-level specification SpecTwo uses them.        *)
(***************************************************************************)
VARIABLES objects, ret, fed, pieces, frame, todo, lists

vars == <<objects, ret, fed, pieces, frame, todo, lists>>

\* the number of chunks an object is fed
MaxPieces == 2

\* the number of lists of words that can be live at the same time
HeapSize == 4

\* the lengths of the chunks
ChunkSizes == {0, 3, 53, 72}

\* the 56-byte message of the tests, "abcdbcdecdefdefg...nopq"
TestMessage ==
    << 97,  98,  99, 100,  98,  99, 100, 101,  99, 100, 101, 102, 100, 101,
      102, 103, 101, 102, 103, 104, 102, 103, 104, 105, 103, 104, 105, 106,
      104, 105, 106, 107, 105, 106, 107, 108, 106, 107, 108, 109, 107, 108,
      109, 110, 108, 109, 110, 111, 109, 110, 111, 112, 110, 111, 112, 113>>

\* the n bytes that object o is fed from position from on: the test message,
\* repeated, and for the second object taken from its eighth byte on
Data(o, from, n) ==
    Force([i \in 1..n |->
             TestMessage[((from + i - 1 + 7 * (o - 1)) % Len(TestMessage)) + 1]])

BytesMessage(o, from, n) == [type |-> "bytes", data |-> Data(o, from, n)]

\* a reader that returns n bytes in two non-empty reads
ReaderMessage(o, from, n) ==
    [type |-> "reader",
     data |-> <<Data(o, from, (n \div 3) + 1),
                Data(o, from + (n \div 3) + 1, n - ((n \div 3) + 1))>>]

\* what a call returned: the method, whether it raised, and the bytes or the
\* characters returned
Returned(op, error, bytes, text) ==
    [op |-> op, error |-> error, bytes |-> bytes, text |-> text]

Idle ==
    [pc |-> "idle", self |-> 0, reads |-> <<>>, chunk |-> <<>>, blocks |-> <<>>,
     next |-> 0, work |-> <<>>, after |-> "idle", last_hash |-> <<>>,
     digest |-> <<>>]

NoLists == [a \in 1..HeapSize |-> <<>>]

\* the variables that only SpecTwo uses
Sequential == frame = <<Idle>> /\ todo = <<<<>>>> /\ lists = NoLists

\* one object of any class, constructed without a message or with the first
\* three bytes of the test message
Init ==
    \E cls \in Variants, n \in {0, 3} :
        /\ objects = <<__init__(cls, IF n = 0 THEN <<>> ELSE <<BytesMessage(1, 0, n)>>)>>
        /\ ret = <<Returned("new", FALSE, <<>>, <<>>)>>
        /\ fed = <<Data(1, 0, n)>>
        /\ pieces = <<IF n = 0 THEN 0 ELSE 1>>
        /\ Sequential

\* update(message) on object 1
Update(message) ==
    /\ pieces[1] + Len(Reads(message)) <= MaxPieces
    /\ objects' = [objects EXCEPT ![1] = update(@, message)]
    /\ ret' = [ret EXCEPT ![1] = Returned("update", FALSE, <<>>, <<>>)]
    /\ fed' = [fed EXCEPT ![1] = @ \o Content(message)]
    /\ pieces' = [pieces EXCEPT ![1] = @ + Len(Reads(message))]
    /\ UNCHANGED <<frame, todo, lists>>

UpdateBytes == \E n \in ChunkSizes : Update(BytesMessage(1, Len(fed[1]), n))

UpdateReader ==
    \E n \in ChunkSizes : n >= 2 /\ Update(ReaderMessage(1, Len(fed[1]), n))

\* the end of digest() or hexdigest() on object 1 with the result d
Return(op, d, text) ==
    /\ objects' = [objects EXCEPT ![1] = d.self]
    /\ ret' = [ret EXCEPT ![1] = Returned(op, d.error, d.bytes, text)]
    /\ UNCHANGED <<fed, pieces, frame, todo, lists>>

DigestOf(d) == Return("digest", [self |-> d.self, error |-> d.error, bytes |-> d.bytes], <<>>)

HexDigestOf(d) == Return("hexdigest", [self |-> d.self, error |-> d.error, bytes |-> <<>>], d.text)

Digest == DigestOf(digest(objects[1]))

HexDigest == HexDigestOf(hexdigest(objects[1]))

Next == UpdateBytes \/ UpdateReader \/ Digest \/ HexDigest

Spec == Init /\ [][Next]_vars

(***************************************************************************)
(* Properties of the sequential specification Spec                         *)
(***************************************************************************)
\* the bytes fed to object o as one bytes message
Whole(o) == [type |-> "bytes", data |-> fed[o]]

\* a fresh object of the class of object o, fed a single update with all the
\* bytes that object o was fed
SingleUpdate(o) == update(NewObject(objects[o].cls), Whole(o))

\* C1: streaming equivalence.  Whatever the chunks an object was fed in, by
\* update calls on bytes (empty ones included) or as the successive reads of
\* a stream, the digest it returns is the digest that a fresh object of the
\* same class returns after a single update with the concatenation.
StreamingEquivalence ==
    \A o \in DOMAIN objects :
        ret[o].op = "digest" /\ ~ret[o].error
            => ret[o].bytes = digest(SingleUpdate(o)).bytes

\* a digest was returned for bytes that came in two chunks and fill more
\* than one block
StreamingWitness ==
    /\ ret[1].op = "digest" /\ ~ret[1].error
    /\ pieces[1] = 2
    /\ Len(fed[1]) > BLOCK_SIZE(objects[1].cls)

\* C2: digest() is non-destructive.  A step in which digest() (directly or
\* through hexdigest()) completes leaves _hash, _last_block and
\* _message_length as they were, and when the call before it was the same
\* call it returns the same value again.
DigestNonDestructive ==
    [][ret'[1].op \in {"digest", "hexdigest"} /\ ~ret'[1].error
         => /\ objects'[1]._hash = objects[1]._hash
            /\ objects'[1]._last_block = objects[1]._last_block
            /\ objects'[1]._message_length = objects[1]._message_length
            /\ (ret[1].op = ret'[1].op /\ ~ret[1].error => ret'[1] = ret[1])]_vars

\* digest() completed on an object that has compressed a block and holds a
\* partial one
NonDestructiveWitness ==
    /\ ret[1].op = "digest" /\ ~ret[1].error
    /\ objects[1]._last_block # <<>>
    /\ objects[1]._hash # H(objects[1].cls)

\* SHA224: the string that test_empty_hash expects of hexdigest()
test_empty_hash_SHA224 ==
    <<
       "d", "1", "4", "a", "0", "2", "8", "c", "2", "a", "3", "a", "2", "b", "c", "9",
       "4", "7", "6", "1", "0", "2", "b", "b", "2", "8", "8", "2", "3", "4", "c", "4",
       "1", "5", "a", "2", "b", "0", "1", "f", "8", "2", "8", "e", "a", "6", "2", "a",
       "c", "5", "b", "3", "e", "4", "2", "f"
    >>

\* SHA224: the string that test_non_empty_hash expects of hexdigest()
test_non_empty_hash_SHA224 ==
    <<
       "2", "3", "0", "9", "7", "d", "2", "2", "3", "4", "0", "5", "d", "8", "2", "2",
       "8", "6", "4", "2", "a", "4", "7", "7", "b", "d", "a", "2", "5", "5", "b", "3",
       "2", "a", "a", "d", "b", "c", "e", "4", "b", "d", "a", "0", "b", "3", "f", "7",
       "e", "3", "6", "c", "9", "d", "a", "7"
    >>

\* SHA224: the string that test_longer_hash expects of hexdigest()
test_longer_hash_SHA224 ==
    <<
       "7", "5", "3", "8", "8", "b", "1", "6", "5", "1", "2", "7", "7", "6", "c", "c",
       "5", "d", "b", "a", "5", "d", "a", "1", "f", "d", "8", "9", "0", "1", "5", "0",
       "b", "0", "c", "6", "4", "5", "5", "c", "b", "4", "f", "5", "8", "b", "1", "9",
       "5", "2", "5", "2", "2", "5", "2", "5"
    >>

\* SHA256: the string that test_empty_hash expects of hexdigest()
test_empty_hash_SHA256 ==
    <<
       "e", "3", "b", "0", "c", "4", "4", "2", "9", "8", "f", "c", "1", "c", "1", "4",
       "9", "a", "f", "b", "f", "4", "c", "8", "9", "9", "6", "f", "b", "9", "2", "4",
       "2", "7", "a", "e", "4", "1", "e", "4", "6", "4", "9", "b", "9", "3", "4", "c",
       "a", "4", "9", "5", "9", "9", "1", "b", "7", "8", "5", "2", "b", "8", "5", "5"
    >>

\* SHA256: the string that test_non_empty_hash expects of hexdigest()
test_non_empty_hash_SHA256 ==
    <<
       "b", "a", "7", "8", "1", "6", "b", "f", "8", "f", "0", "1", "c", "f", "e", "a",
       "4", "1", "4", "1", "4", "0", "d", "e", "5", "d", "a", "e", "2", "2", "2", "3",
       "b", "0", "0", "3", "6", "1", "a", "3", "9", "6", "1", "7", "7", "a", "9", "c",
       "b", "4", "1", "0", "f", "f", "6", "1", "f", "2", "0", "0", "1", "5", "a", "d"
    >>

\* SHA256: the string that test_longer_hash expects of hexdigest()
test_longer_hash_SHA256 ==
    <<
       "2", "4", "8", "d", "6", "a", "6", "1", "d", "2", "0", "6", "3", "8", "b", "8",
       "e", "5", "c", "0", "2", "6", "9", "3", "0", "c", "3", "e", "6", "0", "3", "9",
       "a", "3", "3", "c", "e", "4", "5", "9", "6", "4", "f", "f", "2", "1", "6", "7",
       "f", "6", "e", "c", "e", "d", "d", "4", "1", "9", "d", "b", "0", "6", "c", "1"
    >>

\* SHA384: the string that test_empty_hash expects of hexdigest()
test_empty_hash_SHA384 ==
    <<
       "3", "8", "b", "0", "6", "0", "a", "7", "5", "1", "a", "c", "9", "6", "3", "8",
       "4", "c", "d", "9", "3", "2", "7", "e", "b", "1", "b", "1", "e", "3", "6", "a",
       "2", "1", "f", "d", "b", "7", "1", "1", "1", "4", "b", "e", "0", "7", "4", "3",
       "4", "c", "0", "c", "c", "7", "b", "f", "6", "3", "f", "6", "e", "1", "d", "a",
       "2", "7", "4", "e", "d", "e", "b", "f", "e", "7", "6", "f", "6", "5", "f", "b",
       "d", "5", "1", "a", "d", "2", "f", "1", "4", "8", "9", "8", "b", "9", "5", "b"
    >>

\* SHA384: the string that test_non_empty_hash expects of hexdigest()
test_non_empty_hash_SHA384 ==
    <<
       "c", "b", "0", "0", "7", "5", "3", "f", "4", "5", "a", "3", "5", "e", "8", "b",
       "b", "5", "a", "0", "3", "d", "6", "9", "9", "a", "c", "6", "5", "0", "0", "7",
       "2", "7", "2", "c", "3", "2", "a", "b", "0", "e", "d", "e", "d", "1", "6", "3",
       "1", "a", "8", "b", "6", "0", "5", "a", "4", "3", "f", "f", "5", "b", "e", "d",
       "8", "0", "8", "6", "0", "7", "2", "b", "a", "1", "e", "7", "c", "c", "2", "3",
       "5", "8", "b", "a", "e", "c", "a", "1", "3", "4", "c", "8", "2", "5", "a", "7"
    >>

\* SHA384: the string that test_longer_hash expects of hexdigest()
test_longer_hash_SHA384 ==
    <<
       "3", "3", "9", "1", "f", "d", "d", "d", "f", "c", "8", "d", "c", "7", "3", "9",
       "3", "7", "0", "7", "a", "6", "5", "b", "1", "b", "4", "7", "0", "9", "3", "9",
       "7", "c", "f", "8", "b", "1", "d", "1", "6", "2", "a", "f", "0", "5", "a", "b",
       "f", "e", "8", "f", "4", "5", "0", "d", "e", "5", "f", "3", "6", "b", "c", "6",
       "b", "0", "4", "5", "5", "a", "8", "5", "2", "0", "b", "c", "4", "e", "6", "f",
       "5", "f", "e", "9", "5", "b", "1", "f", "e", "3", "c", "8", "4", "5", "2", "b"
    >>

\* SHA512: the string that test_empty_hash expects of hexdigest()
test_empty_hash_SHA512 ==
    <<
       "c", "f", "8", "3", "e", "1", "3", "5", "7", "e", "e", "f", "b", "8", "b", "d",
       "f", "1", "5", "4", "2", "8", "5", "0", "d", "6", "6", "d", "8", "0", "0", "7",
       "d", "6", "2", "0", "e", "4", "0", "5", "0", "b", "5", "7", "1", "5", "d", "c",
       "8", "3", "f", "4", "a", "9", "2", "1", "d", "3", "6", "c", "e", "9", "c", "e",
       "4", "7", "d", "0", "d", "1", "3", "c", "5", "d", "8", "5", "f", "2", "b", "0",
       "f", "f", "8", "3", "1", "8", "d", "2", "8", "7", "7", "e", "e", "c", "2", "f",
       "6", "3", "b", "9", "3", "1", "b", "d", "4", "7", "4", "1", "7", "a", "8", "1",
       "a", "5", "3", "8", "3", "2", "7", "a", "f", "9", "2", "7", "d", "a", "3", "e"
    >>

\* SHA512: the string that test_non_empty_hash expects of hexdigest()
test_non_empty_hash_SHA512 ==
    <<
       "d", "d", "a", "f", "3", "5", "a", "1", "9", "3", "6", "1", "7", "a", "b", "a",
       "c", "c", "4", "1", "7", "3", "4", "9", "a", "e", "2", "0", "4", "1", "3", "1",
       "1", "2", "e", "6", "f", "a", "4", "e", "8", "9", "a", "9", "7", "e", "a", "2",
       "0", "a", "9", "e", "e", "e", "e", "6", "4", "b", "5", "5", "d", "3", "9", "a",
       "2", "1", "9", "2", "9", "9", "2", "a", "2", "7", "4", "f", "c", "1", "a", "8",
       "3", "6", "b", "a", "3", "c", "2", "3", "a", "3", "f", "e", "e", "b", "b", "d",
       "4", "5", "4", "d", "4", "4", "2", "3", "6", "4", "3", "c", "e", "8", "0", "e",
       "2", "a", "9", "a", "c", "9", "4", "f", "a", "5", "4", "c", "a", "4", "9", "f"
    >>

\* SHA512: the string that test_longer_hash expects of hexdigest()
test_longer_hash_SHA512 ==
    <<
       "2", "0", "4", "a", "8", "f", "c", "6", "d", "d", "a", "8", "2", "f", "0", "a",
       "0", "c", "e", "d", "7", "b", "e", "b", "8", "e", "0", "8", "a", "4", "1", "6",
       "5", "7", "c", "1", "6", "e", "f", "4", "6", "8", "b", "2", "2", "8", "a", "8",
       "2", "7", "9", "b", "e", "3", "3", "1", "a", "7", "0", "3", "c", "3", "3", "5",
       "9", "6", "f", "d", "1", "5", "c", "1", "3", "b", "1", "b", "0", "7", "f", "9",
       "a", "a", "1", "d", "3", "b", "e", "a", "5", "7", "7", "8", "9", "c", "a", "0",
       "3", "1", "a", "d", "8", "5", "c", "7", "a", "7", "1", "d", "d", "7", "0", "3",
       "5", "4", "e", "c", "6", "3", "1", "2", "3", "8", "c", "a", "3", "4", "4", "5"
    >>

\* the string published for the class cls and a message of n bytes
Published(cls, n) ==
    CASE cls = "SHA224" /\ n = 0 -> test_empty_hash_SHA224
      [] cls = "SHA224" /\ n = 3 -> test_non_empty_hash_SHA224
      [] cls = "SHA224" /\ n = 56 -> test_longer_hash_SHA224
      [] cls = "SHA256" /\ n = 0 -> test_empty_hash_SHA256
      [] cls = "SHA256" /\ n = 3 -> test_non_empty_hash_SHA256
      [] cls = "SHA256" /\ n = 56 -> test_longer_hash_SHA256
      [] cls = "SHA384" /\ n = 0 -> test_empty_hash_SHA384
      [] cls = "SHA384" /\ n = 3 -> test_non_empty_hash_SHA384
      [] cls = "SHA384" /\ n = 56 -> test_longer_hash_SHA384
      [] cls = "SHA512" /\ n = 0 -> test_empty_hash_SHA512
      [] cls = "SHA512" /\ n = 3 -> test_non_empty_hash_SHA512
      [] cls = "SHA512" /\ n = 56 -> test_longer_hash_SHA512

\* the messages of the published vectors: the empty one, "abc" and the
\* 56-byte message
IsPublishedMessage(m) ==
    Len(m) \in {0, 3, 56} /\ m = SubSeq(TestMessage, 1, Len(m))

\* C3: the published vectors.  For every class, hexdigest() of the empty
\* message, of "abc" and of the 56-byte message "abcdbcde...nopq" is the
\* string that FIPS 180-4 publishes, whatever the chunks the message came in.
PublishedVectors ==
    \A o \in DOMAIN objects :
        ret[o].op = "hexdigest" /\ IsPublishedMessage(fed[o])
            => /\ ~ret[o].error
               /\ ret[o].text = Published(objects[o].cls, Len(fed[o]))

\* hexdigest() was returned for the 56-byte message, fed in two chunks
PublishedWitness ==
    /\ ret[1].op = "hexdigest"
    /\ fed[1] = TestMessage
    /\ pieces[1] = 2

\* the number of words of a digest: DIGEST_LENGTH, or all 8 words of the state
\* for a class that has none
DigestWordCount(cls) ==
    IF DIGEST_LENGTH(cls) = <<>> THEN Len(H(cls)) ELSE DIGEST_LENGTH(cls)[1]

\* C4: the length of hexdigest().  The string has exactly two characters for
\* each byte of the digest, 2 x digest_words x word_bytes in all; the code
\* formats the digest as a number, so this is false of a digest whose first
\* hexadecimal digit is 0.
HexDigestLength ==
    \A o \in DOMAIN objects :
        ret[o].op = "hexdigest" /\ ~ret[o].error
            => Len(ret[o].text)
                   = 2 * DigestWordCount(objects[o].cls) * WORD_SIZE(objects[o].cls)

\* the length in bytes of the digest of each class
DigestSize(cls) ==
    CASE cls = "SHA224" -> 28
      [] cls = "SHA256" -> 32
      [] cls = "SHA384" -> 48
      [] cls = "SHA512" -> 64

\* byte b (from 1) of the big-endian encodings, in WORD_SIZE bytes each, of
\* the words ws in order: of the digit of its word that holds it, the high
\* half when it is at an even offset in the word and the low half otherwise
BigEndianByte(cls, ws, b) ==
    IF ((b - 1) % WORD_SIZE(cls)) % 2 = 0
    THEN ws[((b - 1) \div WORD_SIZE(cls)) + 1][(((b - 1) % WORD_SIZE(cls)) \div 2) + 1] \div 256
    ELSE ws[((b - 1) \div WORD_SIZE(cls)) + 1][(((b - 1) % WORD_SIZE(cls)) \div 2) + 1] % 256

\* the state after the padded last block of object o has been compressed
PostPadding(o) ==
    _compress(objects[o].cls, objects[o]._hash, _process_last_block(objects[o]).blocks)

\* the bytes bs are the first Len(bs) bytes of the big-endian words ws
IsBigEndian(cls, bs, ws) == \A b \in 1..Len(bs) : bs[b] = BigEndianByte(cls, ws, b)

\* C5: the digest.  digest() returns 28, 32, 48 or 64 bytes for SHA224,
\* SHA256, SHA384 and SHA512, and they are the big-endian encodings of the
\* first words of the state after padding, in order.
DigestIsLeadingWords ==
    \A o \in DOMAIN objects :
        ret[o].op = "digest" /\ ~ret[o].error
            => /\ Len(ret[o].bytes) = DigestSize(objects[o].cls)
               /\ IsBigEndian(objects[o].cls, ret[o].bytes, PostPadding(o))

\* a truncated digest was returned: 28 bytes by a SHA224 object that was fed
\* something
DigestWitness ==
    /\ ret[1].op = "digest" /\ ~ret[1].error
    /\ objects[1].cls = "SHA224"
    /\ Len(ret[1].bytes) = 28
    /\ fed[1] # <<>>

HashIsCompressedBlocks ==
    \A o \in DOMAIN objects :
        objects[o]._hash
            = _compress(objects[o].cls, H(objects[o].cls),
                        _process(objects[o].cls, fed[o]).blocks)

\* hexdigest() returned on an object that has compressed a block and holds a
\* partial one
CompressedBlocksWitness ==
    /\ ret[1].op = "hexdigest" /\ ~ret[1].error
    /\ Len(fed[1]) \div BLOCK_SIZE(objects[1].cls) >= 1
    /\ Len(fed[1]) % BLOCK_SIZE(objects[1].cls) # 0

(***************************************************************************)
(* Long messages.  SpecLong starts from an object that has already been    *)
(* fed all but LongGap bytes of what its length field can count: 2^61      *)
(* bytes for SHA224 and SHA256, 2^125 for SHA384 and SHA512.  Feeding so    *)
(* many bytes is a run of update calls like any other, only too long to    *)
(* take step by step.  _message_length and _last_block are what those      *)
(* calls leave; _hash is a value of the right shape (what the calls leave  *)
(* in it depends on the bytes, and nothing below depends on it).  fed and  *)
(* pieces count from that state on.                                        *)
(***************************************************************************)
\* the numbers of bytes still missing to the limit
LongGaps == {3, 120}

\* the number of bits that the length field holds: length.to_bytes(WORD_SIZE * 2)
LengthBits(cls) == WORD_SIZE(cls) * 2 * 8

\* 2^LengthBits - 8 * gap: the bit count after all but gap bytes
LongLength(cls, gap) ==
    Force([i \in 1..(LengthBits(cls) \div 16) |->
             IF i = LengthBits(cls) \div 16 THEN 65536 - 8 * gap ELSE 65535])

\* the object after those bytes
LongObject(cls, gap) ==
    [cls |-> cls,
     _hash |-> H(cls),
     _last_block |-> Data(1, 0, (BLOCK_SIZE(cls) - gap) % BLOCK_SIZE(cls)),
     _message_length |-> LongLength(cls, gap)]

InitLong ==
    \E cls \in Variants, gap \in LongGaps :
        /\ objects = <<LongObject(cls, gap)>>
        /\ ret = <<Returned("update", FALSE, <<>>, <<>>)>>
        /\ fed = <<<<>>>>
        /\ pieces = <<0>>
        /\ Sequential

SpecLong == InitLong /\ [][Next]_vars

\* the length n fits the length field of the class
FitsLengthField(cls, n) == Len(Norm(n)) <= LengthBits(cls) \div 16

\* C7: overflow is fail-fast.  update does not accept bytes that take the bit
\* count above what the length field holds (2^64 - 1 for SHA224 and SHA256,
\* 2^128 - 1 for SHA384 and SHA512): after an update that returned, the count
\* fits the field.
UpdateFailsFast ==
    \A o \in DOMAIN objects :
        ret[o].op = "update" /\ ~ret[o].error
            => FitsLengthField(objects[o].cls, objects[o]._message_length)

\* C8: finalisation is total.  digest() and hexdigest() return a value and
\* raise no error in every state that update calls reach.
DigestNeverRaises ==
    \A o \in DOMAIN objects :
        ret[o].op \in {"digest", "hexdigest"} => ~ret[o].error

(***************************************************************************)
(* Two threads, statement by statement.  Thread t makes the calls of       *)
(* todo[t], each on the object the call names; frame[t] holds the locals   *)
(* of the call it is in and pc its position.  A list of words that         *)
(* _process builds is an object of its own, lists[a] at the address a,     *)
(* because _expand_message_block extends it in place; the lists of         *)
(* self._hash are never changed in place (the attribute is only assigned)  *)
(* and are held by value.                                                  *)
(***************************************************************************)
Threads == {1, 2}

\* the addresses that hold no list
FreeAddresses(ls) == SelectSeq([a \in 1..HeapSize |-> a], LAMBDA a : ls[a] = <<>>)

\* a buffer that every call would reuse: the first n addresses
SharedLists(ls, n) == [i \in 1..n |-> i]

\* the addresses of n new lists
NewLists(ls, n) == SubSeq(FreeAddresses(ls), 1, n)

\* the heap ls with the lists blocks at the addresses addrs
Store(ls, addrs, blocks) ==
    [a \in 1..HeapSize |->
        IF \E i \in 1..Len(addrs) : addrs[i] = a
        THEN blocks[CHOOSE i \in 1..Len(addrs) : addrs[i] = a]
        ELSE ls[a]]

\* the heap ls once the lists at the addresses addrs are garbage
Release(ls, addrs) ==
    [a \in 1..HeapSize |-> IF \E i \in 1..Len(addrs) : addrs[i] = a THEN <<>> ELSE ls[a]]

\* the calls
UpdateCall(o, message) == [op |-> "update", self |-> o, message |-> <<message>>]

DigestCall(o) == [op |-> "digest", self |-> o, message |-> <<>>]

\* thread t goes to pc with the locals f
Goto(t, pc, f) == frame' = [frame EXCEPT ![t] = [f EXCEPT !.pc = pc]]

\* the call of thread t returns
ReturnFrom(t, op, error, bytes) ==
    /\ frame' = [frame EXCEPT ![t] = Idle]
    /\ ret' = [ret EXCEPT ![t] = Returned(op, error, bytes, <<>>)]

\* update(message): if isinstance(message, bytes): message = io.BytesIO(message)
CallUpdate(t) ==
    /\ frame[t].pc = "idle" /\ todo[t] # <<>> /\ Head(todo[t]).op = "update"
    /\ Goto(t, "update_read",
            [Idle EXCEPT !.self = Head(todo[t]).self,
                         !.reads = Reads(Head(todo[t]).message[1])])
    /\ todo' = [todo EXCEPT ![t] = Tail(@)]
    /\ fed' = [fed EXCEPT ![Head(todo[t]).self] = @ \o Content(Head(todo[t]).message[1])]
    /\ pieces' = [pieces EXCEPT ![Head(todo[t]).self] =
                      @ + Len(Reads(Head(todo[t]).message[1]))]
    /\ UNCHANGED <<objects, ret, lists>>

\* chunk = message.read(self._CHUNK_SIZE); if not chunk: break
UpdateRead(t) ==
    /\ frame[t].pc = "update_read"
    /\ IF frame[t].reads = <<>>
       THEN ReturnFrom(t, "update", FALSE, <<>>)
       ELSE /\ Goto(t, "update_process",
                    [frame[t] EXCEPT !.chunk = Head(frame[t].reads),
                                     !.reads = Tail(frame[t].reads)])
            /\ UNCHANGED ret
    /\ UNCHANGED <<objects, fed, pieces, todo, lists>>

\* a call of _compress(blocks) begins, for the lists that _process built at
\* the addresses addrs; it is followed by the statement at after
CompressCall(t, addrs, blocks, after) ==
    /\ Len(addrs) = Len(blocks)
    /\ lists' = Store(lists, addrs, blocks)
    /\ Goto(t, "compress_load",
            [frame[t] EXCEPT !.blocks = addrs, !.next = 1, !.after = after])

\* blocks, self._last_block = p
ProcessReturned(t, p) ==
    /\ CompressCall(t, NewLists(lists, Len(p.blocks)), p.blocks, "update_length")
    /\ objects' = [objects EXCEPT ![frame[t].self]._last_block = p.rest]

\* blocks, self._last_block = self._process(self._last_block + chunk)
UpdateProcess(t) ==
    /\ frame[t].pc = "update_process"
    /\ ProcessReturned(t, _process(objects[frame[t].self].cls,
                                    objects[frame[t].self]._last_block \o frame[t].chunk))
    /\ UNCHANGED <<ret, fed, pieces, todo>>

\* for block in blocks: a, b, c, d, e, f, g, h = self._hash; when the loop
\* ends, _compress returns and nothing refers to the lists any more
CompressLoad(t) ==
    /\ frame[t].pc = "compress_load"
    /\ IF frame[t].next > Len(frame[t].blocks)
       THEN /\ lists' = Release(lists, frame[t].blocks)
            /\ Goto(t, frame[t].after, [frame[t] EXCEPT !.blocks = <<>>])
       ELSE /\ Goto(t, "compress_expand",
                    [frame[t] EXCEPT !.work = objects[frame[t].self]._hash])
            /\ UNCHANGED lists
    /\ UNCHANGED <<objects, ret, fed, pieces, todo>>

\* the list at the address a has become expanded, and the inner loop runs
\* over it
CompressExpanded(t, a, expanded) ==
    /\ lists' = [lists EXCEPT ![a] = expanded]
    /\ Goto(t, "compress_store",
            [frame[t] EXCEPT !.work =
                 Rounds(objects[frame[t].self].cls, frame[t].work, expanded)])

\* self._expand_message_block(block); for w, k in zip(block, self.K): ...
CompressExpand(t) ==
    /\ frame[t].pc = "compress_expand"
    /\ CompressExpanded(t, frame[t].blocks[frame[t].next],
                        _expand_message_block(objects[frame[t].self].cls,
                                              lists[frame[t].blocks[frame[t].next]]))
    /\ UNCHANGED <<objects, ret, fed, pieces, todo>>

\* self._hash = [(r + w) % self._MODULO for r, w in zip((a, ..., h), self._hash)]
CompressStore(t) ==
    /\ frame[t].pc = "compress_store"
    /\ objects' = [objects EXCEPT ![frame[t].self]._hash =
                       AddState(objects[frame[t].self].cls, frame[t].work, @)]
    /\ Goto(t, "compress_load", [frame[t] EXCEPT !.next = @ + 1])
    /\ UNCHANGED <<ret, fed, pieces, todo, lists>>

\* self._message_length += len(chunk) * 8
UpdateLength(t) ==
    /\ frame[t].pc = "update_length"
    /\ objects' = [objects EXCEPT ![frame[t].self]._message_length =
                       AddLength(@, frame[t].chunk)]
    /\ Goto(t, "update_read", frame[t])
    /\ UNCHANGED <<ret, fed, pieces, todo, lists>>

\* digest()
CallDigest(t) ==
    /\ frame[t].pc = "idle" /\ todo[t] # <<>> /\ Head(todo[t]).op = "digest"
    /\ Goto(t, "digest_copy", [Idle EXCEPT !.self = Head(todo[t]).self])
    /\ todo' = [todo EXCEPT ![t] = Tail(@)]
    /\ UNCHANGED <<objects, ret, fed, pieces, lists>>

\* last_hash = self._hash[:]
DigestCopy(t) ==
    /\ frame[t].pc = "digest_copy"
    /\ Goto(t, "digest_pad", [frame[t] EXCEPT !.last_hash = objects[frame[t].self]._hash])
    /\ UNCHANGED <<objects, ret, fed, pieces, todo, lists>>

\* _process_last_block has returned padded.blocks, or raised
PaddingReturned(t, padded) ==
    IF padded.error
    THEN ReturnFrom(t, "digest", TRUE, <<>>) /\ UNCHANGED lists
    ELSE /\ CompressCall(t, NewLists(lists, Len(padded.blocks)), padded.blocks,
                         "digest_join")
         /\ UNCHANGED ret

\* self._compress(self._process_last_block()): the argument
DigestPad(t) ==
    /\ frame[t].pc = "digest_pad"
    /\ PaddingReturned(t, _process_last_block(objects[frame[t].self]))
    /\ UNCHANGED <<objects, fed, pieces, todo>>

\* the join has returned joined.bytes, or raised
JoinReturned(t, joined) ==
    IF joined.error
    THEN ReturnFrom(t, "digest", TRUE, <<>>)
    ELSE Goto(t, "digest_restore", [frame[t] EXCEPT !.digest = joined.bytes])
         /\ UNCHANGED ret

\* digest = b"".join(h.to_bytes(...) for h in self._hash[: self.DIGEST_LENGTH])
DigestJoin(t) ==
    /\ frame[t].pc = "digest_join"
    /\ JoinReturned(t, JoinWords(objects[frame[t].self].cls,
                                  DigestWords(objects[frame[t].self].cls,
                                              objects[frame[t].self]._hash)))
    /\ UNCHANGED <<objects, fed, pieces, todo, lists>>

\* self._hash = last_hash; return digest
DigestRestore(t) ==
    /\ frame[t].pc = "digest_restore"
    /\ objects' = [objects EXCEPT ![frame[t].self]._hash =
                       RestoredHash(frame[t].last_hash, @)]
    /\ ReturnFrom(t, "digest", FALSE, frame[t].digest)
    /\ UNCHANGED <<fed, pieces, todo, lists>>

\* the classes of the two objects
TwoClasses == {<<"SHA256", "SHA256">>, <<"SHA224", "SHA512">>}

\* the number of bytes each thread feeds its object
TwoChunk == 72

\* two objects, and two threads that each update and then digest their own
InitTwo ==
    \E c \in TwoClasses :
        /\ objects = <<__init__(c[1], <<>>), __init__(c[2], <<>>)>>
        /\ ret = [t \in 1..2 |-> Returned("new", FALSE, <<>>, <<>>)]
        /\ fed = <<<<>>, <<>>>>
        /\ pieces = <<0, 0>>
        /\ frame = <<Idle, Idle>>
        /\ todo = [t \in 1..2 |->
                      <<UpdateCall(t, BytesMessage(t, 0, TwoChunk)), DigestCall(t)>>]
        /\ lists = NoLists

NextTwo ==
    \E t \in Threads :
        \/ CallUpdate(t)
        \/ UpdateRead(t)
        \/ UpdateProcess(t)
        \/ CompressLoad(t)
        \/ CompressExpand(t)
        \/ CompressStore(t)
        \/ UpdateLength(t)
        \/ CallDigest(t)
        \/ DigestCopy(t)
        \/ DigestPad(t)
        \/ DigestJoin(t)
        \/ DigestRestore(t)

SpecTwo == InitTwo /\ [][NextTwo]_vars

\* the lists that thread t holds
Held(t) == {frame[t].blocks[i] : i \in 1..Len(frame[t].blocks)}

\* C9: two instances share no mutable state.  Under every interleaving of
\* the statements of two threads that each update and digest their own
\* object, no list is held by both threads, and between its calls each
\* object is in the state, and has returned the digest, that the same calls
\* give on a fresh object of its class with no other thread running.
InstancesIndependent ==
    /\ Held(1) \cap Held(2) = {}
    /\ \A t \in Threads :
           frame[t].pc = "idle" /\ ret[t].op # "new"
               => /\ objects[t] = SingleUpdate(t)
                  /\ ret[t].op = "digest"
                         => ~ret[t].error /\ ret[t].bytes = digest(SingleUpdate(t)).bytes

\* thread 1 has returned its digest while thread 2 is inside _compress, on a
\* list it was given while thread 1 held one
IndependentWitness ==
    /\ frame[1].pc = "idle" /\ ret[1].op = "digest" /\ ~ret[1].error
    /\ frame[2].pc = "compress_store"
    /\ frame[2].blocks = <<2>>

(***************************************************************************)
(* Properties of the buffer, the padding and the primitives               *)
(***************************************************************************)
\* the last n bytes of s
LastBytes(s, n) == SubSeq(s, Len(s) - n + 1, Len(s))

\* the length in bytes of the block of each class
BlockBytes(cls) == IF cls \in {"SHA224", "SHA256"} THEN 64 ELSE 128

\* C11: the buffer.  After construction and any update and digest calls,
\* _last_block is the last (total bytes mod block bytes) bytes of the bytes
\* fed so far, so it is shorter than a block (64 bytes for SHA224 and
\* SHA256, 128 for SHA384 and SHA512).
LastBlockIsRemainder ==
    \A o \in DOMAIN objects :
        /\ objects[o]._last_block
               = LastBytes(fed[o], Len(fed[o]) % BlockBytes(objects[o].cls))
        /\ Len(objects[o]._last_block) < BlockBytes(objects[o].cls)

\* update returned on an object that has been fed more than a block, in two
\* chunks, and holds a partial block
LastBlockWitness ==
    /\ ret[1].op = "update"
    /\ pieces[1] = 2
    /\ Len(fed[1]) > BlockBytes(objects[1].cls)
    /\ objects[1]._last_block # <<>>

(***************************************************************************)
(* Padding.  SpecPad starts from an object that holds a buffer of any      *)
(* length below a block, after PadBlocks complete blocks or fewer, and     *)
(* calls _process_last_block() on it as the tests do; the lists of words   *)
(* it returns are lists[a] for the addresses a of frame[1].blocks.         *)
(***************************************************************************)
\* the number of complete blocks fed before the buffer
PadBlocks == 1

\* the object made from the first blocks, then fed a buffer of any length
PadObject(first, cls, j) ==
    \E n \in 0..(BLOCK_SIZE(cls) - 1) :
        /\ objects = <<update(first, BytesMessage(1, j * BLOCK_SIZE(cls), n))>>
        /\ ret = <<Returned("update", FALSE, <<>>, <<>>)>>
        /\ fed = <<Data(1, 0, j * BLOCK_SIZE(cls) + n)>>
        /\ pieces = <<2>>
        /\ Sequential

InitPad ==
    \E cls \in Variants, j \in 0..PadBlocks :
        PadObject(__init__(cls, <<BytesMessage(1, 0, j * BLOCK_SIZE(cls))>>), cls, j)

\* _process_last_block() has returned padded.blocks, or raised
PadReturned(padded) ==
    /\ ret' = [ret EXCEPT ![1] = Returned("_process_last_block", padded.error, <<>>, <<>>)]
    /\ lists' = Store(NoLists, NewLists(NoLists, Len(padded.blocks)), padded.blocks)
    /\ frame' = [frame EXCEPT ![1].blocks = NewLists(NoLists, Len(padded.blocks))]

\* hasher._process_last_block()
PadLastBlock ==
    /\ ret[1].op = "update"
    /\ PadReturned(_process_last_block(objects[1]))
    /\ UNCHANGED <<objects, fed, pieces, todo>>

NextPad == PadLastBlock

SpecPad == InitPad /\ [][NextPad]_vars

\* the length in bytes of the word of each class
WordBytes(cls) == IF cls \in {"SHA224", "SHA256"} THEN 4 ELSE 8

\* the number of zero bytes after the 0x80 byte for a buffer of n bytes: the
\* smallest k >= 0 with (n + 1 + k + length field bytes) mod block bytes = 0
PadZeros(cls, n) ==
    CHOOSE k \in 0..(BlockBytes(cls) - 1) :
        /\ (n + 1 + k + 2 * WordBytes(cls)) % BlockBytes(cls) = 0
        /\ \A k2 \in 0..(k - 1) : (n + 1 + k2 + 2 * WordBytes(cls)) % BlockBytes(cls) # 0

\* byte j (from 1) of the number v < 2^24 as a big-endian field of width bytes
FieldByte(v, width, j) ==
    IF width - j >= 3 THEN 0 ELSE (v \div P2[8 * (width - j) + 1]) % 256

\* byte b (from 1) of the padded message for the buffer m and a message of
\* total bytes
PaddedByte(cls, m, total, b) ==
    IF b <= Len(m) THEN m[b]
    ELSE IF b = Len(m) + 1 THEN 128
    ELSE IF b <= Len(m) + 1 + PadZeros(cls, Len(m)) THEN 0
    ELSE FieldByte(8 * total, 2 * WordBytes(cls), b - (Len(m) + 1 + PadZeros(cls, Len(m))))

\* the lists of words that the call returned
ReturnedBlocks == [i \in 1..Len(frame[1].blocks) |-> lists[frame[1].blocks[i]]]

\* byte b (from 1) of the blocks bs, each of 16 big-endian words
BlocksByte(cls, bs, b) ==
    BigEndianByte(cls, bs[((b - 1) \div BlockBytes(cls)) + 1], ((b - 1) % BlockBytes(cls)) + 1)

\* C12: the padding.  _process_last_block() returns, as blocks of 16
\* big-endian words, the buffer followed by one byte 0x80, the smallest
\* number of zero bytes that fills a block, and 8 times the number of bytes
\* of the whole message (not of the buffer) as a big-endian field of
\* 2 x word bytes.
PaddingIsStandard ==
    ret[1].op = "_process_last_block"
        => /\ ~ret[1].error
           /\ \A i \in 1..Len(ReturnedBlocks) : Len(ReturnedBlocks[i]) = 16
           /\ Len(ReturnedBlocks) * BlockBytes(objects[1].cls)
                  = Len(objects[1]._last_block) + 1
                    + PadZeros(objects[1].cls, Len(objects[1]._last_block))
                    + 2 * WordBytes(objects[1].cls)
           /\ \A b \in 1..(Len(ReturnedBlocks) * BlockBytes(objects[1].cls)) :
                  BlocksByte(objects[1].cls, ReturnedBlocks, b)
                      = PaddedByte(objects[1].cls, objects[1]._last_block, Len(fed[1]), b)

\* the call returned for a message of more than a block, with a buffer that
\* leaves no room for the length field
PaddingWitness ==
    /\ ret[1].op = "_process_last_block" /\ ~ret[1].error
    /\ Len(fed[1]) > BlockBytes(objects[1].cls)
    /\ Len(objects[1]._last_block) = BlockBytes(objects[1].cls) - 1

\* C13: the number of padded blocks.  For every buffer shorter than a block,
\* _process_last_block() returns exactly one block of 16 words when the
\* buffer, the 0x80 byte and the length field fit a block (up to 55 bytes for
\* SHA224 and SHA256, 111 for SHA384 and SHA512) and exactly two otherwise.
PaddedBlockCount ==
    ret[1].op = "_process_last_block"
        => /\ Len(objects[1]._last_block) < BlockBytes(objects[1].cls)
           /\ Len(ReturnedBlocks)
                  = IF Len(objects[1]._last_block) + 1 + 2 * WordBytes(objects[1].cls)
                         <= BlockBytes(objects[1].cls)
                    THEN 1 ELSE 2
           /\ Len(ReturnedBlocks) * BlockBytes(objects[1].cls)
                  = Len(objects[1]._last_block)
                    + ((PadBits(objects[1].cls, objects[1]._last_block) + 1) \div 8)
                    + 2 * WordBytes(objects[1].cls)
           /\ Len(ReturnedBlocks)
                  = IF Len(objects[1]._last_block) <= (IF WordBytes(objects[1].cls) = 4 THEN 55 ELSE 111)
                    THEN 1 ELSE 2
           /\ \A i \in 1..Len(ReturnedBlocks) : Len(ReturnedBlocks[i]) = 16

\* the call returned two blocks for a SHA384 buffer of 112 bytes
BlockCountWitness ==
    /\ ret[1].op = "_process_last_block" /\ ~ret[1].error
    /\ objects[1].cls = "SHA384"
    /\ Len(objects[1]._last_block) = 112
    /\ Len(ReturnedBlocks) = 2

(***************************************************************************)
(* The word primitives as the tests call them.  SpecWords draws a class    *)
(* and three words, calls _ch, _maj, _bit_not or _r_rotate on them, and    *)
(* calls _bit_not and _r_rotate once more on what they returned.           *)
(***************************************************************************)
\* the word of cls whose 16-bit digits are all d
WordOf(cls, d) == Force([i \in 1..(ModuloBits(cls) \div 16) |-> d])

\* the words drawn: 0, 2^W - 1, the patterns 0xF0F0.., 0xCCCC.. and 0xAAAA..
\* (as x, y, z they show every combination of three bits) and K[0]
Words(cls) ==
    {WordOf(cls, 0), WordOf(cls, 65535), WordOf(cls, 61680), WordOf(cls, 52428),
     WordOf(cls, 43690), K(cls)[1]}

\* the rotation amounts drawn, 0 < n < W
Amounts(cls) == {1, 16, 17, ModuloBits(cls) - 1}

\* the arguments of the calls
WordsCall(x, y, z) == [op |-> "primitives", self |-> 1, message |-> <<>>, words |-> <<x, y, z>>]

InitWords ==
    \E cls \in Variants :
        \E x \in Words(cls), y \in Words(cls), z \in Words(cls) :
            /\ objects = <<NewObject(cls)>>
            /\ ret = <<Returned("new", FALSE, <<>>, <<>>)>>
            /\ fed = <<(<<>>)>>
            /\ pieces = <<0>>
            /\ frame = [t \in {1} |-> Idle]
            /\ todo = [t \in {1} |-> <<WordsCall(x, y, z)>>]
            /\ lists = NoLists

\* a primitive returned value, its calls-th call in a row with these amounts
ReturnedWord(op, value, amounts) ==
    [op |-> op, error |-> FALSE, bytes |-> <<>>, text |-> <<>>,
     value |-> value, amounts |-> amounts]

ReturnWord(op, value, amounts) ==
    /\ ret' = [ret EXCEPT ![1] = ReturnedWord(op, value, amounts)]
    /\ UNCHANGED <<objects, fed, pieces, frame, todo, lists>>

\* cls._ch(x, y, z)
Ch ==
    /\ ret[1].op = "new"
    /\ ReturnWord("_ch", _ch(objects[1].cls, todo[1][1].words[1], todo[1][1].words[2],
                             todo[1][1].words[3]), <<>>)

\* cls._maj(x, y, z)
Maj ==
    /\ ret[1].op = "new"
    /\ ReturnWord("_maj", _maj(todo[1][1].words[1], todo[1][1].words[2],
                               todo[1][1].words[3]), <<>>)

\* cls._bit_not(x)
BitNot ==
    /\ ret[1].op = "new"
    /\ ReturnWord("_bit_not", _bit_not(objects[1].cls, todo[1][1].words[1]), <<0>>)

\* cls._bit_not(cls._bit_not(x))
BitNotAgain ==
    /\ ret[1].op = "_bit_not" /\ Len(ret[1].amounts) = 1
    /\ ReturnWord("_bit_not", _bit_not(objects[1].cls, ret[1].value), <<0, 0>>)

\* cls._r_rotate(x, a)
RRotate ==
    /\ ret[1].op = "new"
    /\ \E a \in Amounts(objects[1].cls) :
           ReturnWord("_r_rotate", _r_rotate(objects[1].cls, todo[1][1].words[1], a), <<a>>)

\* cls._r_rotate(cls._r_rotate(x, a), b)
RRotateAgain ==
    /\ ret[1].op = "_r_rotate" /\ Len(ret[1].amounts) = 1
    /\ \E b \in Amounts(objects[1].cls) :
           ReturnWord("_r_rotate", _r_rotate(objects[1].cls, ret[1].value, b),
                      ret[1].amounts \o <<b>>)

NextWords == Ch \/ Maj \/ BitNot \/ BitNotAgain \/ RRotate \/ RRotateAgain

SpecWords == InitWords /\ [][NextWords]_vars

\* the arguments x, y, z of the calls
ArgX == todo[1][1].words[1]
ArgY == todo[1][1].words[2]
ArgZ == todo[1][1].words[3]

\* the number of bits of the word of each class
WordBits(cls) == IF cls \in {"SHA224", "SHA256"} THEN 32 ELSE 64

\* the integers a and b are equal
SameInt(a, b) == Norm(a) = Norm(b)

\* the integer a lies in [0, 2^W)
IsWord(cls, a) ==
    /\ Len(Norm(a)) * 16 <= WordBits(cls)
    /\ \A i \in 1..Len(a) : a[i] \in 0..65535

\* NOT_W x: every bit of the W-bit word x inverted
WordNot(cls, x) ==
    [i \in 1..(WordBits(cls) \div 16) |-> 65535 - IntPad(x, WordBits(cls) \div 16)[i]]

\* C14: Ch and Maj.  For the words x, y, z, _ch(x, y, z) is
\* (x AND y) XOR (NOT_W x AND z) and _maj(x, y, z) is
\* (x AND y) XOR (x AND z) XOR (y AND z).
ChMajAreXorForms ==
    /\ ret[1].op = "_ch"
           => SameInt(ret[1].value,
                      IntXor(IntAnd(ArgX, ArgY), IntAnd(WordNot(objects[1].cls, ArgX), ArgZ)))
    /\ ret[1].op = "_maj"
           => SameInt(ret[1].value,
                      IntXor(IntXor(IntAnd(ArgX, ArgY), IntAnd(ArgX, ArgZ)),
                             IntAnd(ArgY, ArgZ)))

\* _maj returned for the patterns that show every combination of three bits
ChMajWitness ==
    /\ ret[1].op = "_maj"
    /\ objects[1].cls = "SHA512"
    /\ ArgX = WordOf("SHA512", 61680)
    /\ ArgY = WordOf("SHA512", 52428)
    /\ ArgZ = WordOf("SHA512", 43690)
    /\ ret[1].value = WordOf("SHA512", 59624)

\* C16: the laws of the primitives.  _bit_not(_bit_not(x)) is x;
\* _r_rotate(_r_rotate(x, a), b) is _r_rotate(x, (a + b) mod W), and every
\* result lies in [0, 2^W); _maj(x, x, x) is x; _ch(2^W - 1, y, z) is y and
\* _ch(0, y, z) is z.
PrimitiveLaws ==
    /\ ret[1].op # "new" => IsWord(objects[1].cls, ret[1].value)
    /\ (ret[1].op = "_bit_not" /\ Len(ret[1].amounts) = 2) => SameInt(ret[1].value, ArgX)
    /\ (ret[1].op = "_r_rotate" /\ Len(ret[1].amounts) = 2)
           => SameInt(ret[1].value,
                      _r_rotate(objects[1].cls, ArgX,
                                (ret[1].amounts[1] + ret[1].amounts[2]) % WordBits(objects[1].cls)))
    /\ (ret[1].op = "_maj" /\ ArgX = ArgY /\ ArgY = ArgZ) => SameInt(ret[1].value, ArgX)
    /\ (ret[1].op = "_ch" /\ ArgX = WordOf(objects[1].cls, 65535)) => SameInt(ret[1].value, ArgY)
    /\ (ret[1].op = "_ch" /\ ArgX = WordOf(objects[1].cls, 0)) => SameInt(ret[1].value, ArgZ)

\* two rotations of K[0] returned whose amounts add up to more than W
PrimitiveLawsWitness ==
    /\ ret[1].op = "_r_rotate"
    /\ objects[1].cls = "SHA256"
    /\ ArgX = K("SHA256")[1]
    /\ ret[1].amounts = <<17, 31>>
    /\ SameInt(ret[1].value, _r_rotate("SHA256", ArgX, 16))
    /\ ~SameInt(ret[1].value, ArgX)

(***************************************************************************)
(* One block through _compress.  SpecBlock starts from an object that has  *)
(* compressed CompressedBefore blocks or fewer and from one list of 16     *)
(* words, lists[1], and calls _compress([block]) as update does; the call  *)
(* extends the list in place and assigns _hash.                            *)
(***************************************************************************)
\* the number of blocks the object has compressed before the call
CompressedBefore == 2

\* where in the test message the bytes of the block start
BlockOffsets == {0, 5, 17}

\* the blocks drawn: of bytes of the test message, of bytes 0x00, of bytes 0xFF
Blocks(cls) ==
    {BlockWords(cls, Data(1, from, BLOCK_SIZE(cls))) : from \in BlockOffsets}
        \cup {BlockWords(cls, [i \in 1..BLOCK_SIZE(cls) |-> c]) : c \in {0, 255}}

\* the object before and the block of the call
BlockObject(before, cls, j) ==
    \E block \in Blocks(cls) :
        /\ objects = <<before>>
        /\ ret = <<Returned("update", FALSE, <<>>, <<>>)>>
        /\ fed = <<Data(1, 0, j * BLOCK_SIZE(cls))>>
        /\ pieces = <<1>>
        /\ frame = <<[Idle EXCEPT !.blocks = <<1>>]>>
        /\ todo = <<<<>>>>
        /\ lists = Store(NoLists, <<1>>, <<block>>)

InitBlock ==
    \E cls \in Variants, j \in 0..CompressedBefore :
        BlockObject(__init__(cls, <<BytesMessage(1, 0, j * BLOCK_SIZE(cls))>>), cls, j)

\* self._compress([block]) for the list block at lists[1]
CompressOne ==
    /\ ret[1].op = "update"
    /\ objects' = [objects EXCEPT ![1]._hash =
                       _compress(objects[1].cls, objects[1]._hash, <<lists[1]>>)]
    /\ lists' = [lists EXCEPT ![1] = _expand_message_block(objects[1].cls, lists[1])]
    /\ ret' = [ret EXCEPT ![1] = Returned("_compress", FALSE, <<>>, <<>>)]
    /\ UNCHANGED <<fed, pieces, frame, todo>>

NextBlock == CompressOne

SpecBlock == InitBlock /\ [][NextBlock]_vars

\* the number of rounds of each class
RefRounds(cls) == IF cls \in {"SHA224", "SHA256"} THEN 64 ELSE 80

\* a + b mod 2^W
RefAdd(cls, a, b) == IntMod2(IntSum(<<a, b>>), WordBits(cls))

\* W[i] = sigma1(W[i-2]) + W[i-7] + sigma0(W[i-15]) + W[i-16] mod 2^W, for
\* the schedule w = W[0..i-1]
RefWord(cls, w, i) ==
    RefAdd(cls, RefAdd(cls, _sigma_1(cls, w[i - 2 + 1]), w[i - 7 + 1]),
           RefAdd(cls, _sigma_0(cls, w[i - 15 + 1]), w[i - 16 + 1]))

RECURSIVE RefScheduleRange(_, _, _, _)
RefScheduleRange(cls, w, lo, hi) ==
    IF Len(w) = 0 \/ lo > hi THEN w
    ELSE IF lo = hi THEN Append(w, RefWord(cls, w, lo))
    ELSE RefScheduleRange(cls, RefScheduleRange(cls, w, lo, (lo + hi) \div 2),
                          ((lo + hi) \div 2) + 1, hi)

\* the schedule W[0..rounds-1] of the 16-word block
RefSchedule(cls, block) == RefScheduleRange(cls, block, 16, RefRounds(cls) - 1)

RefCh(cls, x, y, z) == IntXor(IntAnd(x, y), IntAnd(WordNot(cls, x), z))

RefMaj(x, y, z) == IntXor(IntXor(IntAnd(x, y), IntAnd(x, z)), IntAnd(y, z))

\* the working variables after a round with T1 and T2
RefAssign(cls, s, t1, t2) ==
    <<RefAdd(cls, t1, t2), s[1], s[2], s[3], RefAdd(cls, s[4], t1), s[5], s[6], s[7]>>

\* round t on the working variables s = (a, ..., h), with w = W[t] and
\* k = K[t]; T1 and T2 are reduced modulo 2^W
RefRound(cls, s, w, k) ==
    RefAssign(cls, s,
              RefAdd(cls, RefAdd(cls, RefAdd(cls, s[8], _usigma_1(cls, s[5])),
                                 RefCh(cls, s[5], s[6], s[7])),
                     RefAdd(cls, k, w)),
              RefAdd(cls, _usigma_0(cls, s[1]), RefMaj(s[1], s[2], s[3])))

RECURSIVE RefRoundRange(_, _, _, _, _)
RefRoundRange(cls, s, w, lo, hi) ==
    IF Len(s) = 0 \/ lo > hi THEN s
    ELSE IF lo = hi THEN RefRound(cls, s, w[lo], K(cls)[lo])
    ELSE RefRoundRange(cls, RefRoundRange(cls, s, w, lo, (lo + hi) \div 2),
                       w, ((lo + hi) \div 2) + 1, hi)

\* the state plus the working variables, componentwise modulo 2^W
RefAddState(cls, s, state) == Force([i \in 1..8 |-> RefAdd(cls, s[i], state[i])])

\* the reference compression of the block into the state
RefCompress(cls, state, block) ==
    RefAddState(cls, RefRoundRange(cls, state, RefSchedule(cls, block), 1, RefRounds(cls)),
                state)

\* the lists a and b hold the same integers
SameWords(a, b) == Len(a) = Len(b) /\ \A i \in 1..Len(a) : SameInt(a[i], b[i])

\* the call of _compress on the list at lists[1] has just returned
CompressReturns == ret[1].op = "update" /\ ret'[1].op = "_compress"

\* C15: one iteration of _compress.  For a state of 8 words and a block of
\* 16 words, the call leaves in the list the schedule of exactly `rounds`
\* words (the block, then W[i] = sigma1(W[i-2]) + W[i-7] + sigma0(W[i-15])
\* + W[i-16] mod 2^W) and in _hash the reference compression: round t on
\* W[t] and K[t] for t = 0..rounds-1, then the working variables added to
\* the previous state modulo 2^W, every word in [0, 2^W).
CompressIsReference ==
    [][CompressReturns
           => /\ Len(objects[1]._hash) = 8 /\ Len(lists[1]) = 16
              /\ Len(lists'[1]) = RefRounds(objects[1].cls)
              /\ SameWords(lists'[1], RefSchedule(objects[1].cls, lists[1]))
              /\ Len(objects'[1]._hash) = 8
              /\ SameWords(objects'[1]._hash,
                           RefCompress(objects[1].cls, objects[1]._hash, lists[1]))
              /\ \A i \in 1..8 : IsWord(objects[1].cls, objects'[1]._hash[i])]_vars

\* the call returned for a SHA512 object that had compressed blocks before,
\* on the block of bytes 0xFF
CompressWitness ==
    /\ ret[1].op = "_compress"
    /\ objects[1].cls = "SHA512"
    /\ Len(fed[1]) > 0
    /\ Len(lists[1]) = 80
    /\ lists[1][1] = WordOf("SHA512", 65535)
    /\ objects[1]._hash # H("SHA512")

(***************************************************************************)
(* The module sha256.py: the class SHA256 before sha2.py replaced it.  Its *)
(* WORD_SIZE, BLOCK_SIZE and LENGTH_BLOCK_SIZE count bits; K and H hold    *)
(* the numbers of K256 and H256; bit_not, r_rotate and the four sigma      *)
(* functions compute what _bit_not, _r_rotate and the sigma functions of   *)
(* sha2.SHA256 compute.  An object is a record of its class and its two    *)
(* attributes.                                                             *)
(***************************************************************************)
sha256_WORD_SIZE == 32
sha256_BLOCK_SIZE == 512
sha256_LENGTH_BLOCK_SIZE == 64

\* (x & y) ^ (cls.bit_not(x) & z)
sha256_ch(x, y, z) == IntXor(IntAnd(x, y), IntAnd(_bit_not("SHA256", x), z))

\* (x & y) ^ (x & z) ^ (y & z)
sha256_maj(x, y, z) == IntXor(IntXor(IntAnd(x, y), IntAnd(x, z)), IntAnd(y, z))

\* the words of block: for j in range(0, BLOCK_SIZE // 8, WORD_SIZE // 8)
sha256_BlockWords(block) ==
    Force([n \in 1..(((sha256_BLOCK_SIZE \div 8) + (sha256_WORD_SIZE \div 8) - 1)
                         \div (sha256_WORD_SIZE \div 8)) |->
             from_bytes(Slice(block, (n - 1) * (sha256_WORD_SIZE \div 8),
                              (n - 1) * (sha256_WORD_SIZE \div 8) + (sha256_WORD_SIZE \div 8)))])

\* _process(m): block = m[i * (BLOCK_SIZE // 8) : (i + 1) + (BLOCK_SIZE // 8)]
\* for i in range(0, len(m) // (BLOCK_SIZE // 8)), and the rest of m
sha256__process(m) ==
    [blocks |-> Force([n \in 1..(Len(m) \div (sha256_BLOCK_SIZE \div 8)) |->
                         sha256_BlockWords(
                             Slice(m, (n - 1) * (sha256_BLOCK_SIZE \div 8),
                                   ((n - 1) + 1) + (sha256_BLOCK_SIZE \div 8)))]),
     rest |-> Slice(m, (Len(m) \div (sha256_BLOCK_SIZE \div 8)) * (sha256_BLOCK_SIZE \div 8),
                    Len(m))]

\* _expand_message_block(words): the list w that it returns
sha256__expand_message_block(words) == ExpandRange("SHA256", words, 16, Len(K256) - 1)

\* one iteration of the inner loop of _compress; t1 and t2 are not reduced
sha256_Round(s, w, k) ==
    RoundAssign("SHA256", s,
                IntSum(<<s[8], _usigma_1("SHA256", s[5]), sha256_ch(s[5], s[6], s[7]), k, w>>),
                IntSum(<<_usigma_0("SHA256", s[1]), sha256_maj(s[1], s[2], s[3])>>))

\* the iterations lo..hi of for w, k in zip(W, K), in order
RECURSIVE sha256_RoundRange(_, _, _, _)
sha256_RoundRange(s, W, lo, hi) ==
    IF Len(s) = 0 \/ lo > hi THEN s
    ELSE IF lo = hi THEN sha256_Round(s, W[lo], K256[lo])
    ELSE sha256_RoundRange(sha256_RoundRange(s, W, lo, (lo + hi) \div 2),
                           W, ((lo + hi) \div 2) + 1, hi)

\* the inner loop over the schedule W
sha256_Rounds(hash, W) == sha256_RoundRange(hash, W, 1, Min(Len(W), Len(K256)))

\* the body of the outer loop of _compress for one block
sha256_CompressBlock(hash, block) ==
    AddState("SHA256", sha256_Rounds(hash, sha256__expand_message_block(block)), hash)

RECURSIVE sha256_CompressRange(_, _, _, _)
sha256_CompressRange(hash, blocks, lo, hi) ==
    IF Len(hash) = 0 \/ lo > hi THEN hash
    ELSE IF lo = hi THEN sha256_CompressBlock(hash, blocks[lo])
    ELSE sha256_CompressRange(sha256_CompressRange(hash, blocks, lo, (lo + hi) \div 2),
                              blocks, ((lo + hi) \div 2) + 1, hi)

\* _compress(blocks): the value of self._hash after the call
sha256__compress(hash, blocks) == sha256_CompressRange(hash, blocks, 1, Len(blocks))

\* k = (BLOCK_SIZE - LENGTH_BLOCK_SIZE - 1 - len(m) * 8) % BLOCK_SIZE
sha256_PadBits(m) ==
    (sha256_BLOCK_SIZE - sha256_LENGTH_BLOCK_SIZE - 1 - Len(m) * 8) % sha256_BLOCK_SIZE

\* the blocks of m + zeroes + length; error stands for the OverflowError of
\* a to_bytes call
sha256_PaddedBlocks(m, zeroes, length) ==
    IF zeroes.error \/ length.error
    THEN [error |-> TRUE, blocks |-> <<>>]
    ELSE [error |-> FALSE, blocks |-> sha256__process(m \o zeroes.bytes \o length.bytes).blocks]

\* _process_last_block(): zeroes = (1 << k).to_bytes((k + 1) // 8) and
\* length = (len(m) * 8).to_bytes(LENGTH_BLOCK_SIZE // 8)
sha256__process_last_block(self) ==
    sha256_PaddedBlocks(self._last_block,
                        to_bytes(OneShiftL(sha256_PadBits(self._last_block)),
                                 (sha256_PadBits(self._last_block) + 1) \div 8),
                        to_bytes(IntFromNat(Len(self._last_block) * 8),
                                 sha256_LENGTH_BLOCK_SIZE \div 8))

\* update once _process has returned p for self._last_block + message
sha256_UpdateProcessed(self, p) ==
    [cls |-> self.cls, _hash |-> sha256__compress(self._hash, p.blocks), _last_block |-> p.rest]

\* update(message)
sha256_update(self, message) ==
    sha256_UpdateProcessed(self, sha256__process(self._last_block \o message))

\* SHA2.__init__ of sha256.py
sha256___init__ == [cls |-> "sha256.SHA256", _hash |-> H256, _last_block |-> <<>>]

(***************************************************************************)
(* Spec256: one object of sha256.SHA256 is fed some chunks, and then       *)
(* _process_last_block() is called on it; or the class method _process is  *)
(* called on a message.  The lists of words a call returns are lists[a]    *)
(* for the addresses a of frame[1].blocks.                                 *)
(***************************************************************************)
\* the lengths of the chunks, and of the messages given to _process
Sizes256 == {0, 3, 53, 64, 72, 130}

\* the number of chunks the object is fed
Pieces256 == 3

Init256 ==
    /\ objects = <<sha256___init__>>
    /\ ret = <<Returned("new", FALSE, <<>>, <<>>)>>
    /\ fed = <<(<<>>)>>
    /\ pieces = <<0>>
    /\ Sequential

\* hasher.update(message)
Update256 ==
    /\ ret[1].op \in {"new", "update"}
    /\ pieces[1] < Pieces256
    /\ \E n \in Sizes256 :
           /\ objects' = [objects EXCEPT
                              ![1] = sha256_update(@, Data(1, Len(fed[1]), n))]
           /\ fed' = [fed EXCEPT ![1] = @ \o Data(1, Len(fed[1]), n)]
    /\ ret' = [ret EXCEPT ![1] = Returned("update", FALSE, <<>>, <<>>)]
    /\ pieces' = [pieces EXCEPT ![1] = @ + 1]
    /\ UNCHANGED <<frame, todo, lists>>

\* a call returned the lists of words blocks, and r
BlocksReturned(blocks, r) ==
    /\ ret' = [ret EXCEPT ![1] = r]
    /\ lists' = Store(NoLists, NewLists(NoLists, Len(blocks)), blocks)
    /\ frame' = [frame EXCEPT ![1].blocks = NewLists(NoLists, Len(blocks))]
    /\ UNCHANGED <<objects, fed, pieces, todo>>

LastBlockReturned(padded) ==
    BlocksReturned(padded.blocks, Returned("_process_last_block", padded.error, <<>>, <<>>))

\* hasher._process_last_block()
ProcessLastBlock256 ==
    /\ ret[1].op \in {"new", "update"}
    /\ LastBlockReturned(sha256__process_last_block(objects[1]))

\* _process returned p for the message m: its second result is the bytes left
ProcessReturned256(m, p) ==
    BlocksReturned(p.blocks,
                   [op |-> "_process", error |-> FALSE, bytes |-> p.rest, text |-> <<>>,
                    m |-> m])

\* SHA256._process(m)
Process256 ==
    /\ ret[1].op = "new"
    /\ \E n \in Sizes256 : ProcessReturned256(Data(1, 0, n), sha256__process(Data(1, 0, n)))

Next256 == Update256 \/ ProcessLastBlock256 \/ Process256

Spec256 == Init256 /\ [][Next256]_vars

\* the last list of words that the call returned
LastReturned == ReturnedBlocks[Len(ReturnedBlocks)]

\* C17: the length field of sha256.py.  The last 8 bytes of what
\* _process_last_block() pads, the last two words of the last block, are the
\* big-endian number 8 x the number of bytes passed to update since
\* construction, also when 64 bytes or more were passed.
LengthFieldIsTotalBits256 ==
    ret[1].op = "_process_last_block"
        => /\ ~ret[1].error
           /\ Len(ReturnedBlocks) >= 1
           /\ Len(LastReturned) = 16
           /\ SameInt(LastReturned[15], <<>>)
           /\ SameInt(LastReturned[16], IntFromNat(8 * Len(fed[1])))

\* the big-endian 32-bit word of the bytes m[at .. at + 3]
WordAt(m, at) == <<m[at + 1] * 256 + m[at + 2], m[at + 3] * 256 + m[at + 4]>>

\* C18: the blocks of sha256.py.  _process(m) returns floor(len(m) / 64)
\* blocks in the order of m, block i the 16 big-endian 32-bit words of the
\* bytes m[64i .. 64i + 63] for every i, and the last len(m) mod 64 bytes of
\* m as the rest.
ProcessBlocksInOrder256 ==
    ret[1].op = "_process"
        => /\ Len(ReturnedBlocks) = Len(ret[1].m) \div 64
           /\ \A i \in 1..Len(ReturnedBlocks) :
                  /\ Len(ReturnedBlocks[i]) = 16
                  /\ \A j \in 1..16 :
                         SameInt(ReturnedBlocks[i][j],
                                 WordAt(ret[1].m, 64 * (i - 1) + 4 * (j - 1)))
           /\ ret[1].bytes = LastBytes(ret[1].m, Len(ret[1].m) % 64)

(***************************************************************************)
(* Two calls of digest() on one object.  SpecShared starts from one object *)
(* that was fed SharedSizes bytes, and two threads that each call digest() *)
(* on it; the statements of the two calls interleave.                      *)
(***************************************************************************)
\* the numbers of bytes the object was fed
SharedSizes == {0, 3}

InitShared ==
    \E cls \in Variants, n \in SharedSizes :
        /\ objects = <<__init__(cls, <<BytesMessage(1, 0, n)>>)>>
        /\ ret = [t \in 1..2 |-> Returned("new", FALSE, <<>>, <<>>)]
        /\ fed = <<Data(1, 0, n)>>
        /\ pieces = <<1>>
        /\ frame = <<Idle, Idle>>
        /\ todo = [t \in 1..2 |-> <<DigestCall(1)>>]
        /\ lists = NoLists

NextShared ==
    \E t \in Threads :
        \/ CallDigest(t)
        \/ DigestCopy(t)
        \/ DigestPad(t)
        \/ CompressLoad(t)
        \/ CompressExpand(t)
        \/ CompressStore(t)
        \/ DigestJoin(t)
        \/ DigestRestore(t)

SpecShared == InitShared /\ [][NextShared]_vars

\* C19: digest() as a concurrent read.  When the statements of two digest()
\* calls on one object interleave, each call returns the digest of the bytes
\* fed so far, and once both have returned _hash is what it was before the
\* calls.
DigestIsConcurrentRead ==
    /\ \A t \in Threads :
           ret[t].op = "digest"
               => ~ret[t].error /\ ret[t].bytes = digest(SingleUpdate(1)).bytes
    /\ (\A t \in Threads : ret[t].op = "digest")
           => objects[1]._hash = SingleUpdate(1)._hash

====
